---- MODULE Spec2Model ----
(***************************************************************************)
(* Certificate lifecycle of the Crypto-Agent-Architecture repository.      *)
(*                                                                         *)
(* PKIMCPPlugin (src/Running-Agent/pki_plugin.py) keeps an in-memory       *)
(* certificate registry (a dict keyed by caller-chosen identifiers) and an *)
(* operation log; tools/ca.py (src/pki-AI-Agents) is the stub authority of *)
(* the agent flow.  Time is counted in days; strings are TLA+ strings, so  *)
(* that f"{cert_id}_renewed" is a real concatenation.                      *)
(***************************************************************************)
EXTENDS Integers, Sequences, FiniteSets, TLC

VARIABLES
    certificates,   \* self.certificates: cert_id -> record (a dict)
    cert_keys,      \* insertion order of the keys of self.certificates
    operation_log,  \* self.operation_log
    now,            \* the wall clock read by datetime.utcnow()
    call,           \* the public operation invoked last, with its arguments
    result,         \* the dict that operation returned
    signed,         \* history: every certificate signed by the plugin's CA, in order
    ca_issued,      \* history: every certificate returned by tools/ca.py
    violations,     \* PolicyMCPPlugin: self.violations
    mgr_certificates, \* SimplePKIManager: self.certificates
    mgr_audit_log,  \* SimplePKIManager: self.audit_log
    threads,        \* concurrent callers of PKIMCPPlugin: position and locals of each
    applied,        \* history: the calls in the order their registry mutation was applied
    logged,         \* history: the calls in the order their log entry was appended
    oids,           \* identity of the dict object stored under each cert_id
    ca_key,         \* PKIMCPPlugin: self.ca_key, the authority's private key
    ca_cert,        \* PKIMCPPlugin: self.ca_cert, the self-signed authority certificate
    expiry_seen,    \* history: the first check_certificate_expiry call and its output
    flow,           \* run_certificate_flow: position and locals of the flow in progress
    flow_audit,     \* the events audit_agent.log has written
    flow_keys,      \* the key references key_agent.generate_key has created
    flow_inventory, \* the certificates inventory_agent.store_certificate has stored
    mgr_threads,    \* concurrent callers of SimplePKIManager: position and locals of each
    key_store,      \* CryptoMCPPlugin: self.key_store
    csr_store,      \* CryptoMCPPlugin: self.csr_store
    crypto_log,     \* CryptoMCPPlugin: self.operation_log
    conversation_history, \* BedrockCryptoAgent: self.conversation_history
    chat            \* BedrockCryptoAgent.chat: position and locals of the call in progress

vars == <<certificates, cert_keys, operation_log, now, call, result,
          signed, ca_issued, violations, mgr_certificates, mgr_audit_log,
          threads, applied, logged, oids, ca_key, ca_cert, expiry_seen,
          flow, flow_audit, flow_keys, flow_inventory, mgr_threads,
          key_store, csr_store, crypto_log, conversation_history, chat>>

\* the state of the certificate flow of pki-AI-Agents
flow_state == <<flow, flow_audit, flow_keys, flow_inventory>>

\* the state of CryptoMCPPlugin
crypto_state == <<key_store, csr_store, crypto_log>>

\* the state of BedrockCryptoAgent
chat_state == <<conversation_history, chat>>

\* the components the lifecycle, policy and manager operations never touch
other_components == <<flow_state, mgr_threads, crypto_state, chat_state>>

\* the authority identity of PKIMCPPlugin
ca_identity == <<ca_key, ca_cert>>

\* the state the lifecycle operations of one PKIMCPPlugin, called by one caller
\* at a time, never write: the other components and the authority identity
outside_pki == <<ca_issued, violations, mgr_certificates, mgr_audit_log,
                 threads, applied, logged, oids, ca_identity, expiry_seen,
        other_components>>

\* the state outside tools/ca.py
outside_ca == <<violations, mgr_certificates, mgr_audit_log, threads, applied, logged, oids,
                ca_identity, expiry_seen,
        other_components>>

----------------------------------------------------------------------------
(* Bounds of the model *)

MaxLog == 3         \* mutations are accepted while the log is shorter than this
MaxTime == 1        \* the clock stops advancing here
MaxSerial == 2      \* random_serial_number() draws from 1..MaxSerial
MaxValidity == 1    \* validity_days ranges over -1..MaxValidity
MaxRenewals == 1    \* identifiers carry at most this many "_renewed" suffixes
MaxCaIssued == 4    \* calls of tools/ca.py issue_certificate
MaxMgrCertificates == 2  \* SimplePKIManager issues while it holds fewer certificates
MaxMgrAudit == 4    \* SimplePKIManager is called while its audit log is shorter than this
MaxConcCalls == 2   \* calls each concurrent caller makes
MaxLimit == 3       \* limit of list_violations ranges over -1..MaxLimit
MaxCaKeys == 2      \* authority keys generated, the one of the constructor included
MaxFlows == 2       \* flows run one after the other
MaxChats == 2       \* chat calls made of one agent
MaxCryptoLog == 3   \* the crypto plugin accepts calls while its log is shorter than this
MaxViolations == 2  \* evaluations are accepted while self.violations is shorter than this

----------------------------------------------------------------------------
(* Inputs *)

RECURSIVE RenewedN(_, _)
RenewedN(id, n) == IF n = 0 THEN id ELSE RenewedN(id, n - 1) \o "_renewed"

CertIds == { RenewedN("a", n) : n \in 0..MaxRenewals }
UnknownId == "zz"
Serials == 1..MaxSerial
ValidityDays == -1..MaxValidity
Reasons == {"unspecified", "keyCompromise"}
StatusFilters == {"all", "active", "revoked", "superseded", "expired"}

\* What x509.load_pem_x509_csr makes of csr_pem: undecodable text raises,
\* otherwise the request carries a subject, a public key and a signature.
CSRs ==
    { [decodable |-> TRUE,  is_signature_valid |-> TRUE,  subject |-> "CN=api", public_key |-> "k1"],
      [decodable |-> TRUE,  is_signature_valid |-> TRUE,  subject |-> "CN=web", public_key |-> "k2"],
      [decodable |-> TRUE,  is_signature_valid |-> FALSE, subject |-> "CN=api", public_key |-> "k1"],
      [decodable |-> FALSE, is_signature_valid |-> FALSE, subject |-> "",       public_key |-> ""] }

CaCommonNames == {"api.example.com", "web.example.com", "db.example.com"}

\* a common name one character longer than max_common_name_length
LongCommonName == "aaaaaaaaaabbbbbbbbbbccccccccccddddddddddeeeeeeeeeeffffffffffgggg.x"

\* the evaluations asked of validate_key_policy; an optional argument is
\* None (the empty tuple) or <<value>>
KeyRequests ==
    { [algorithm |-> "RSA", key_size |-> k, curve |-> << >>] :
        k \in {<< >>, <<0>>, <<1024>>, <<2048>>, <<2049>>, <<4096>>} }
    \cup { [algorithm |-> "ECC", key_size |-> << >>, curve |-> c] :
        c \in {<< >>, <<"SECP256R1">>, <<"P-256">>} }
    \cup { [algorithm |-> "DSA", key_size |-> k, curve |-> << >>] : k \in {<< >>, <<2048>>} }
    \cup { [algorithm |-> "RSA", key_size |-> << >>, curve |-> <<"P-256">>],
           [algorithm |-> "ECC", key_size |-> <<1024>>, curve |-> << >>] }

\* the evaluations asked of validate_certificate_policy
CertRequests ==
    { [validity_days |-> d, common_name |-> << >>, organization |-> o, country |-> << >>,
       key_usage |-> << >>, extended_key_usage |-> << >>] :
        d \in {-1, 0, 1, 90, 825, 826}, o \in {<< >>, <<"Acme">>} }
    \cup
    { [validity_days |-> 90, common_name |-> << >>, organization |-> <<"Acme">>,
       country |-> << >>, key_usage |-> ku, extended_key_usage |-> eku] :
        ku \in { << >>, << << >> >>, << <<"digitalSignature">> >>,
                 << <<"nonRepudiation", "digitalSignature", "encipherOnly">> >>,
                 << <<"encipherOnly", "nonRepudiation">> >> },
        eku \in { << >>, << <<"serverAuth">> >>,
                  << <<"timeStamping", "serverAuth", "OCSPSigning">> >> } }
    \cup
    { [validity_days |-> 90, common_name |-> cn, organization |-> o, country |-> c,
       key_usage |-> << >>, extended_key_usage |-> << >>] :
        cn \in {<<"api.example.com">>, <<LongCommonName>>}, o \in {<<"">>, <<"Acme">>},
        c \in {<< >>, <<"US">>} }
    \cup
    { [validity_days |-> 90, common_name |-> << >>, organization |-> <<"">>,
       country |-> << >>, key_usage |-> << <<"encipherOnly">> >>,
       extended_key_usage |-> << <<"timeStamping">> >>] }

\* the timestamps handed to check_certificate_expiry: naive ones around the
\* clock and the warning window, offset-aware ones as the PKI plugin prints
\* them, and text that is no timestamp
ExpiryInputs ==
    { [iso |-> d, tz |-> ""] : d \in {-1, 0, 31} }
    \cup { [iso |-> 31, tz |-> "+00:00"], [iso |-> 31, tz |-> "Z"],
           [iso |-> 0, tz |-> "not a date"] }

PolicyCategoryInputs == {"all", "certificate", "lifecycle", "audit"}

ListLimits == -1..MaxLimit

\* the evaluations made between the reports
ReportKeyRequests ==
    { [algorithm |-> "RSA", key_size |-> <<k>>, curve |-> << >>] : k \in {1024, 2048} }

ReportCertRequests ==
    { [validity_days |-> d, common_name |-> << >>, organization |-> <<"Acme">>,
       country |-> << >>, key_usage |-> << >>, extended_key_usage |-> << >>] :
        d \in {90, 826} }

\* tool calls the dispatcher cannot run: names no plugin has, data attributes,
\* and tools called without their required parameters
RaisingRequests ==
    { [tool_name |-> n, parameters |-> {}] :
        n \in {"delete_certificate", "", "certificates", "operation_log", "violations",
               "revoke_certificate", "validate_certificate_policy"} }
    \cup { [tool_name |-> "issue_certificate", parameters |-> {"csr_pem"}] }

\* the requests made of SimplePKIManager.issue_certificate
MgrRequests ==
    { [subject |-> "api.example.com", algorithm |-> "RSA", key_size |-> k,
       validity_days |-> 90] : k \in {0, 2048, 3071, 3072, 4096} }
    \cup { [subject |-> "api.example.com", algorithm |-> "RSA", key_size |-> 4096,
            validity_days |-> d] : d \in {-1, 0, 397, 398} }
    \cup { [subject |-> "legacy.example.com", algorithm |-> a, key_size |-> k,
            validity_days |-> d] :
              a \in {"RSA", "ECC"}, k \in {256, 2048}, d \in {90, 398} }
    \cup { [subject |-> "legacy.example.com", algorithm |-> a, key_size |-> 2048,
            validity_days |-> 90] : a \in {"DSA", "ED25519"} }

\* no flow is in progress and none has run: flows counts the flows started
FlowIdle == [pc |-> "idle", flows |-> 0, request |-> << >>, key_ref |-> "", cert |-> << >>]

\* policies/policy.json as the flow loads it
FlowPolicy ==
    [ allowed_algorithms |-> {"RSA", "ECDSA"}, min_rsa_bits |-> 2048,
      max_cert_days |-> 398, allowed_ekus |-> {"serverAuth", "clientAuth"} ]

\* the request of main.py, requests each policy rule rejects, and requests
\* that lack a field
FlowRequests ==
    LET request == [cn |-> "api.example.com", algorithm |-> "RSA", key_bits |-> 4096,
                    validity_days |-> 90, eku |-> "serverAuth"]
    IN  { request, [request EXCEPT !.algorithm = "DSA"], [request EXCEPT !.key_bits = 1024],
          [request EXCEPT !.validity_days = 399], [request EXCEPT !.eku = "codeSigning"],
          [algorithm |-> "RSA", key_bits |-> 4096, validity_days |-> 90],
          [algorithm |-> "RSA", key_bits |-> 4096, validity_days |-> 90,
           eku |-> "serverAuth"] }

\* a caller of SimplePKIManager that is in no call: its locals are unset
MgrIdle ==
    [pc |-> "idle", calls |-> 0, subject |-> "", algorithm |-> "", key_size |-> 0,
     validity_days |-> 0, cert_id |-> "", serial |-> "", result |-> [success |-> TRUE]]

\* the requests concurrent callers make of SimplePKIManager.issue_certificate
MgrConcRequests ==
    { [subject |-> "api.example.com", algorithm |-> "RSA", key_size |-> k,
       validity_days |-> 90] : k \in {2048, 4096} }

\* no chat call is in progress and none was made: chats counts the calls
ChatIdle ==
    [pc |-> "idle", chats |-> 0, user_message |-> "", content |-> << >>, pending |-> << >>,
     tool_results |-> << >>]

\* the replies of the model to the first request of a chat call: None is an
\* exception raised by invoke_model
ChatResponses ==
    LET text == [type |-> "text", text |-> "I will look that up."]
        known == [type |-> "tool_use", name |-> "get_ca_certificate", id |-> "toolu_1"]
        unknown == [type |-> "tool_use", name |-> "delete_certificate", id |-> "toolu_2"]
    IN  { << >>,
          << [stop_reason |-> "end_turn", content |-> <<text>>] >>,
          << [stop_reason |-> "tool_use", content |-> <<text>>] >>,
          << [stop_reason |-> "tool_use", content |-> <<text, known>>] >>,
          << [stop_reason |-> "tool_use", content |-> <<unknown>>] >>,
          << [stop_reason |-> "tool_use", content |-> <<known, unknown>>] >> }

\* the replies of the model to the request that carries the tool results
FinalResponses ==
    { << >>,
      << [stop_reason |-> "end_turn", content |-> << >>] >>,
      << [stop_reason |-> "end_turn",
          content |-> <<[type |-> "text", text |-> "Here is the CA certificate."]>>] >> }

\* the arguments given to CryptoMCPPlugin.generate_key_pair: sizes and curves
\* omitted, falsy, allowed and not allowed
GenerateRequests ==
    { [algorithm |-> "RSA", key_size |-> k, curve |-> << >>] :
        k \in {<< >>, <<0>>, <<1024>>, <<2048>>, <<4096>>} }
    \cup { [algorithm |-> "ECC", key_size |-> << >>, curve |-> c] :
             c \in {<< >>, <<"">>, <<"SECP256R1">>, <<"SECP192R1">>} }
    \cup { [algorithm |-> "DSA", key_size |-> <<2048>>, curve |-> << >>] }

\* the key identifiers callers use
KeyIds == {"k1", "k2"}

\* what the user types
UserMessages == {"show the CA certificate"}

\* the callers of the concurrent specification
Threads == {"t1", "t2"}

\* a caller that is in no call: its locals are unset (ref 0 is no object,
\* the empty tuple is None)
Idle ==
    [ pc |-> "idle", op |-> "none", cert_id |-> "", reason |-> "", validity_days |-> 0,
      calls |-> 0, ref |-> 0, new_ref |-> 0, orphan |-> << >>, certificate |-> << >>,
      result |-> [success |-> TRUE] ]

\* the reason each concurrent caller gives when it revokes
ConcReason == [t \in Threads |-> IF t = "t1" THEN "keyCompromise" ELSE "unspecified"]

\* the request the concurrent callers issue from, and the arguments they pass
ConcCsr == [decodable |-> TRUE, is_signature_valid |-> TRUE, subject |-> "CN=api",
            public_key |-> "k1"]
ConcCertId == "a"
ConcValidityDays == 1
ConcSerials == {1}

----------------------------------------------------------------------------
(* Helpers: Python dicts and datetimes *)

\* d[k] = v on a dict
SetKey(d, k, v) == [x \in (DOMAIN d) \cup {k} |-> IF x = k THEN v ELSE d[x]]

\* key order of a dict after d[k] = v: a new key goes last, an old one keeps its place
KeyOrderAfterSet(keys, d, k) == IF k \in DOMAIN d THEN keys ELSE Append(keys, k)

\* datetime.isoformat(): naive for utcnow(), "+00:00" for the *_utc properties
IsoFormat(t, aware) == [iso |-> t, tz |-> IF aware THEN "+00:00" ELSE ""]

\* the instants a later datetime.utcnow() of the same handler may return: at
\* the granularity of days a handler reads one instant
LaterReads == {now}

CaSubject == "CN=Demo Root CA"

\* the draws of x509.random_serial_number() for the authority certificate
CaSerials == {1}

\* days the authority certificate is valid
CaValidityDays == 3650

\* the self-signed certificate _initialize_demo_ca builds for the key it generated
DemoCaCertificate(key, serial, t) ==
    [ subject          |-> CaSubject,
      issuer           |-> CaSubject,
      public_key       |-> key,
      serial_number    |-> serial,
      not_valid_before |-> t,
      not_valid_after  |-> t + CaValidityDays,
      signed_with      |-> key ]

\* x509.CertificateBuilder()...sign(): raises ValueError when not_valid_after
\* lies before not_valid_before
CanSign(not_before, not_after) == not_after >= not_before

Certificate(subject, public_key, serial, not_before, not_after) ==
    [ subject          |-> subject,
      issuer           |-> ca_cert.subject,
      public_key       |-> public_key,
      serial_number    |-> serial,
      not_valid_before |-> not_before,
      not_valid_after  |-> not_after,
      signed_with      |-> ca_key ]

LogEntry(t, operation, details) ==
    [timestamp |-> IsoFormat(t, FALSE), operation |-> operation, details |-> details]

----------------------------------------------------------------------------
Init ==
    /\ certificates = << >>
    /\ cert_keys = << >>
    /\ operation_log = << >>
    /\ now = 0
    /\ call = [op |-> "__init__"]
    /\ result = [success |-> TRUE]
    /\ signed = << >>
    /\ ca_issued = << >>
    /\ violations = << >>
    /\ mgr_certificates = << >>
    /\ mgr_audit_log = << >>
    /\ threads = [t \in Threads |-> Idle]
    /\ applied = << >>
    /\ logged = << >>
    /\ oids = << >>
    /\ ca_key = 1
    /\ ca_cert \in { DemoCaCertificate(1, serial, 0) : serial \in CaSerials }
    /\ expiry_seen = << >>
    /\ flow = FlowIdle
    /\ flow_audit = << >>
    /\ flow_keys = << >>
    /\ flow_inventory = << >>
    /\ mgr_threads = [t \in Threads |-> MgrIdle]
    /\ key_store = << >>
    /\ csr_store = << >>
    /\ crypto_log = << >>
    /\ conversation_history = << >>
    /\ chat = ChatIdle

Tick ==
    /\ now < MaxTime
    /\ now' = now + 1
    /\ UNCHANGED <<certificates, cert_keys, operation_log, call, result,
                   signed, outside_pki>>

----------------------------------------------------------------------------
(* Optional arguments: None is the empty tuple, a given value v is <<v>> *)

None == << >>
Some(v) == <<v>>
IsNone(x) == x = None
Val(x) == x[1]

\* PolicyMCPPlugin._load_default_policies()
policies ==
    [ key_generation |->
        [ rsa_min_key_size   |-> 2048,
          rsa_allowed_sizes  |-> <<2048, 3072, 4096>>,
          ecc_allowed_curves |-> <<"SECP256R1", "SECP384R1", "SECP521R1">>,
          allowed_algorithms |-> <<"RSA", "ECC">> ],
      certificate |->
        [ max_validity_days  |-> 825,
          min_validity_days  |-> 1,
          require_san        |-> TRUE,
          allowed_key_usages |->
              <<"digitalSignature", "keyEncipherment", "dataEncipherment",
                "keyAgreement", "keyCertSign", "cRLSign">>,
          allowed_extended_key_usages |->
              <<"serverAuth", "clientAuth", "codeSigning", "emailProtection">> ],
      naming |->
        [ require_country        |-> FALSE,
          require_organization   |-> TRUE,
          max_common_name_length |-> 64,
          allowed_countries      |-> None ],
      lifecycle |->
        [ renewal_warning_days      |-> 30,
          auto_revoke_on_compromise |-> TRUE ] ]

----------------------------------------------------------------------------
(* PKIMCPPlugin *)

\* faulty variant: the entry is appended by the helper and again by its caller
_log_operation_twice(t, operation, details) ==
    Append(Append(operation_log, LogEntry(t, operation, details)),
           LogEntry(t, operation, details))

\* faulty variant: the newest entry is put first
_log_operation_prepend(t, operation, details) ==
    <<LogEntry(t, operation, details)>> \o operation_log

\* self._log_operation(operation, details), reading the clock at t
_log_operation(t, operation, details) == Append(operation_log, LogEntry(t, operation, details))

\* faulty variant: the derived expiry classification is written into the record
IssuedRecord_stores_expiry(certificate, t) ==
    [ certificate |-> certificate,
      status      |-> IF certificate.not_valid_after <= t THEN "expired" ELSE "active",
      issued_at   |-> IsoFormat(t, FALSE),
      expires_at  |-> IsoFormat(certificate.not_valid_after, TRUE),
      subject     |-> certificate.subject ]

\* the record issue_certificate stores under cert_id
IssuedRecord(certificate, t) ==
    [ certificate |-> certificate,
      status      |-> "active",
      issued_at   |-> IsoFormat(t, FALSE),
      expires_at  |-> IsoFormat(certificate.not_valid_after, TRUE),
      subject     |-> certificate.subject ]

\* the store of issue_certificate: self.certificates[cert_id] = {...}
IssueStore(cert_id, certificate, t) == SetKey(certificates, cert_id, IssuedRecord(certificate, t))

Fail(error) == [success |-> FALSE, error |-> error]

\* faulty variant: a failed call leaves an entry in the log
NoEffect_logs_failure ==
    /\ operation_log' = Append(operation_log, LogEntry(now, "failed", << >>))
    /\ UNCHANGED <<certificates, cert_keys, signed>>

\* a return before the store, and the except branch: nothing is written
NoEffect == UNCHANGED <<certificates, cert_keys, operation_log, signed>>

\* issue_certificate(csr_pem, cert_id, validity_days): serial is the random
\* serial drawn, t2 the clock at the second utcnow() and after it
issue_certificate(csr, cert_id, validity_days, serial, t2) ==
    /\ Len(operation_log) < MaxLog
    /\ call' = [op |-> "issue_certificate", cert_id |-> cert_id]
    /\ now' = t2
    /\ UNCHANGED outside_pki
    /\ IF ~csr.decodable
       THEN /\ result' = Fail("Certificate issuance failed: Unable to load PEM file.")
            /\ NoEffect
       ELSE IF ~csr.is_signature_valid
       THEN /\ result' = Fail("CSR signature is invalid")
            /\ NoEffect
       ELSE IF ~CanSign(now, t2 + validity_days)
       THEN /\ result' = Fail("Certificate issuance failed: The not valid after date must be after the not valid before date.")
            /\ NoEffect
       ELSE LET certificate == Certificate(csr.subject, csr.public_key, serial,
                                           now, t2 + validity_days)
            IN  /\ certificates' = IssueStore(cert_id, certificate, t2)
                /\ cert_keys' = KeyOrderAfterSet(cert_keys, certificates, cert_id)
                /\ operation_log' = _log_operation(t2, "issue_certificate",
                        [cert_id |-> cert_id, subject |-> certificate.subject,
                         validity_days |-> validity_days])
                /\ signed' = Append(signed, certificate)
                /\ result' = [ success |-> TRUE, cert_id |-> cert_id,
                               serial_number |-> certificate.serial_number,
                               subject |-> certificate.subject,
                               issuer |-> certificate.issuer,
                               not_valid_before |-> IsoFormat(certificate.not_valid_before, TRUE),
                               not_valid_after |-> IsoFormat(certificate.not_valid_after, TRUE),
                               message |-> "Certificate issued successfully" ]

\* faulty variant: the not-found error does not name the identifier
NotFound_unnamed(cert_id) == Fail("Certificate not found")

\* the result of the cert_id not in self.certificates branches
NotFound(cert_id) == Fail("Certificate '" \o cert_id \o "' not found")

\* faulty variant: revocation without the already-revoked test
AlreadyRevoked_unchecked(cert_data) == FALSE

\* the test that makes revocation reject a revoked record
AlreadyRevoked(cert_data) == cert_data["status"] = "revoked"

\* revoke_certificate(cert_id, reason)
revoke_certificate(cert_id, reason) ==
    /\ Len(operation_log) < MaxLog
    /\ call' = [op |-> "revoke_certificate", cert_id |-> cert_id]
    /\ UNCHANGED <<outside_pki, now, signed, cert_keys>>
    /\ IF cert_id \notin DOMAIN certificates
       THEN /\ result' = NotFound(cert_id)
            /\ UNCHANGED <<certificates, operation_log>>
       ELSE IF AlreadyRevoked(certificates[cert_id])
       THEN /\ result' = Fail("Certificate is already revoked")
            /\ UNCHANGED <<certificates, operation_log>>
       ELSE LET cert_data == SetKey(SetKey(SetKey(certificates[cert_id],
                                 "status", "revoked"),
                                 "revoked_at", IsoFormat(now, FALSE)),
                                 "revocation_reason", reason)
            IN  /\ certificates' = SetKey(certificates, cert_id, cert_data)
                /\ operation_log' = _log_operation(now, "revoke_certificate",
                        [cert_id |-> cert_id, reason |-> reason])
                /\ result' = [ success |-> TRUE, cert_id |-> cert_id, status |-> "revoked",
                               revoked_at |-> cert_data["revoked_at"], reason |-> reason,
                               message |-> "Certificate revoked successfully" ]

\* the record renew_certificate stores under new_cert_id
RenewedRecord(renewed_cert, t, cert_id) ==
    [ certificate  |-> renewed_cert,
      status       |-> "active",
      issued_at    |-> IsoFormat(t, FALSE),
      expires_at   |-> IsoFormat(renewed_cert.not_valid_after, TRUE),
      subject      |-> renewed_cert.subject,
      renewed_from |-> cert_id ]

\* the certificate renew_certificate builds from the old one
RenewedCertificate(old_cert, serial, not_before, not_after) ==
    Certificate(old_cert.subject, old_cert.public_key, serial, not_before, not_after)

\* the store of renew_certificate: self.certificates[new_cert_id] = {...}
RenewStore(new_cert_id, renewed_cert, t, cert_id) ==
    SetKey(certificates, new_cert_id, RenewedRecord(renewed_cert, t, cert_id))

\* faulty variant: the old record is marked but not linked to its successor
MarkSuperseded_unlinked(old_cert_data, new_cert_id) ==
    SetKey(old_cert_data, "status", "superseded")

\* old_cert_data["status"] = "superseded"; old_cert_data["superseded_by"] = new_cert_id
MarkSuperseded(old_cert_data, new_cert_id) ==
    SetKey(SetKey(old_cert_data, "status", "superseded"), "superseded_by", new_cert_id)

\* renew_certificate(cert_id, validity_days)
renew_certificate(cert_id, validity_days, serial, t2) ==
    /\ Len(operation_log) < MaxLog
    /\ call' = [op |-> "renew_certificate", cert_id |-> cert_id]
    /\ UNCHANGED outside_pki
    /\ IF cert_id \notin DOMAIN certificates
       THEN /\ result' = NotFound(cert_id)
            /\ now' = now
            /\ NoEffect
       ELSE IF ~CanSign(now, t2 + validity_days)
       THEN /\ result' = Fail("Certificate renewal failed: The not valid after date must be after the not valid before date.")
            /\ now' = t2
            /\ NoEffect
       ELSE LET old_cert == certificates[cert_id]["certificate"]
                renewed_cert == RenewedCertificate(old_cert, serial, now, t2 + validity_days)
                new_cert_id == cert_id \o "_renewed"
                stored == RenewStore(new_cert_id, renewed_cert, t2, cert_id)
            IN  /\ now' = t2
                /\ certificates' = SetKey(stored, cert_id,
                                          MarkSuperseded(stored[cert_id], new_cert_id))
                /\ cert_keys' = KeyOrderAfterSet(cert_keys, certificates, new_cert_id)
                /\ operation_log' = _log_operation(t2, "renew_certificate",
                        [old_cert_id |-> cert_id, new_cert_id |-> new_cert_id,
                         validity_days |-> validity_days])
                /\ signed' = Append(signed, renewed_cert)
                /\ result' = [ success |-> TRUE, old_cert_id |-> cert_id,
                               new_cert_id |-> new_cert_id,
                               serial_number |-> renewed_cert.serial_number,
                               not_valid_after |-> IsoFormat(renewed_cert.not_valid_after, TRUE),
                               message |-> "Certificate renewed successfully" ]

\* get_certificate(cert_id)
get_certificate(cert_id) ==
    /\ call' = [op |-> "get_certificate", cert_id |-> cert_id]
    /\ UNCHANGED <<certificates, cert_keys, operation_log, now, signed, outside_pki>>
    /\ IF cert_id \notin DOMAIN certificates
       THEN result' = NotFound(cert_id)
       ELSE LET cert_data == certificates[cert_id]
                cert == cert_data["certificate"]
            IN  result' = [ success |-> TRUE, cert_id |-> cert_id,
                            serial_number |-> cert.serial_number,
                            subject |-> cert.subject, issuer |-> cert.issuer,
                            status |-> cert_data["status"],
                            issued_at |-> cert_data["issued_at"],
                            expires_at |-> cert_data["expires_at"] ]

\* the test of list_certificates' loop
ListMatches(cert_data, status) == status = "all" \/ cert_data["status"] = status

ListEntry(cert_id, cert_data) ==
    [ cert_id |-> cert_id, subject |-> cert_data["subject"], status |-> cert_data["status"],
      issued_at |-> cert_data["issued_at"], expires_at |-> cert_data["expires_at"] ]

\* filtered_certs after the loop over self.certificates.items() reached keys[1..n]
RECURSIVE FilteredCerts(_, _, _, _)
FilteredCerts(certs, keys, n, status) ==
    IF n = 0 THEN << >>
    ELSE LET rest == FilteredCerts(certs, keys, n - 1, status)
         IN  IF ListMatches(certs[keys[n]], status)
             THEN Append(rest, ListEntry(keys[n], certs[keys[n]]))
             ELSE rest

\* list_certificates(status)
list_certificates(status) ==
    /\ call' = [op |-> "list_certificates", status |-> status]
    /\ UNCHANGED <<certificates, cert_keys, operation_log, now, signed, outside_pki>>
    /\ LET filtered_certs == FilteredCerts(certificates, cert_keys, Len(cert_keys), status)
       IN  result' = [ success |-> TRUE, total_certificates |-> Len(filtered_certs),
                       certificates |-> filtered_certs,
                       message |-> "Retrieved " \o ToString(Len(filtered_certs))
                                                \o " certificates" ]

\* get_ca_certificate()
get_ca_certificate ==
    /\ call' = [op |-> "get_ca_certificate"]
    /\ UNCHANGED <<certificates, cert_keys, operation_log, now, signed, outside_pki>>
    /\ result' = [ success |-> TRUE, subject |-> ca_cert.subject,
                   serial_number |-> ca_cert.serial_number,
                   not_valid_before |-> IsoFormat(ca_cert.not_valid_before, TRUE),
                   not_valid_after |-> IsoFormat(ca_cert.not_valid_after, TRUE),
                   certificate_pem |-> ca_cert,
                   message |-> "This is a DEMO CA for testing only - not for production use" ]

----------------------------------------------------------------------------
(* pki-AI-Agents: tools/ca.py *)

\* str.replace(old, ""): every non-overlapping occurrence of old removed, left to right
RECURSIVE Remove(_, _)
Remove(s, old) ==
    IF Len(s) < Len(old) THEN s
    ELSE IF SubSeq(s, 1, Len(old)) = old
         THEN Remove(SubSeq(s, Len(old) + 1, Len(s)), old)
         ELSE SubSeq(s, 1, 1) \o Remove(SubSeq(s, 2, Len(s)), old)

\* the dict tools/ca.py issue_certificate(csr) returns
CaCertificate(csr) == [cn |-> Remove(Remove(csr, "CSR("), ")"), serial |-> "ABC123"]

\* one call of tools/ca.py issue_certificate(csr)
ca_issue_certificate(csr) ==
    /\ Len(ca_issued) < MaxCaIssued
    /\ ca_issued' = Append(ca_issued, CaCertificate(csr))
    /\ UNCHANGED <<certificates, cert_keys, operation_log, now, call, result, signed, outside_ca>>

\* the requests cert_agent hands to tools/ca.py
CaRequests == { "CSR(" \o cn \o ")" : cn \in CaCommonNames }

----------------------------------------------------------------------------
(* pki-AI-Agents: run_certificate_flow, one statement or agent call a step *)

\* the state outside the certificate flow
outside_flow ==
    <<certificates, cert_keys, operation_log, signed, violations, mgr_certificates,
      mgr_audit_log, threads, applied, logged, oids, ca_identity, expiry_seen,
      mgr_threads, crypto_state, chat_state, now>>

\* validate_request(req, policy): the pair it returns, or the KeyError of the
\* first field read that the request lacks
validate_request(req, policy) ==
    IF "algorithm" \notin DOMAIN req THEN [raised |-> "KeyError", message |-> "algorithm"]
    ELSE IF req.algorithm \notin policy.allowed_algorithms
    THEN [ok |-> FALSE, reason |-> "Algorithm not allowed"]
    ELSE IF "key_bits" \notin DOMAIN req THEN [raised |-> "KeyError", message |-> "key_bits"]
    ELSE IF req.key_bits < policy.min_rsa_bits
    THEN [ok |-> FALSE, reason |-> "Key size too weak"]
    ELSE IF "validity_days" \notin DOMAIN req
    THEN [raised |-> "KeyError", message |-> "validity_days"]
    ELSE IF req.validity_days > policy.max_cert_days
    THEN [ok |-> FALSE, reason |-> "Validity too long"]
    ELSE IF "eku" \notin DOMAIN req THEN [raised |-> "KeyError", message |-> "eku"]
    ELSE IF req.eku \notin policy.allowed_ekus
    THEN [ok |-> FALSE, reason |-> "EKU not permitted"]
    ELSE [ok |-> TRUE, reason |-> "APPROVED"]

\* audit_agent.log(event, data): the audit log gains one entry
log(event, data) == Append(flow_audit, [event |-> event, data |-> data])

\* the flow ends: by a return or by an exception
FlowEnds == [flow EXCEPT !.pc = "idle", !.request = << >>, !.key_ref = "", !.cert = << >>]

\* policy = json.load(...); log("REQUEST_RECEIVED", request)
FlowReceive(request) ==
    /\ flow.pc = "idle"
    /\ flow.flows < MaxFlows
    /\ flow' = [flow EXCEPT !.pc = "validate", !.flows = @ + 1, !.request = request]
    /\ flow_audit' = log("REQUEST_RECEIVED", request)
    /\ call' = [op |-> "run_certificate_flow", request |-> request]
    /\ UNCHANGED <<result, flow_keys, flow_inventory, ca_issued, outside_flow>>

\* faulty variant: a rejected request is logged but the flow goes on
FlowValidate_continues ==
    /\ flow.pc = "validate"
    /\ LET verdict == validate_request(flow.request, FlowPolicy)
       IN  IF "raised" \in DOMAIN verdict
           THEN flow' = FlowEnds /\ result' = verdict /\ flow_audit' = flow_audit
           ELSE /\ flow' = [flow EXCEPT !.pc = "generate_key"]
                /\ result' = result
                /\ flow_audit' = log(IF verdict.ok THEN "POLICY_APPROVED"
                                                   ELSE "POLICY_REJECTED", verdict.reason)
    /\ UNCHANGED <<call, flow_keys, flow_inventory, ca_issued, outside_flow>>

\* ok, reason = validate_request(request, policy); a rejection is logged and
\* raised, an approval is logged
FlowValidate ==
    /\ flow.pc = "validate"
    /\ LET verdict == validate_request(flow.request, FlowPolicy)
       IN  IF "raised" \in DOMAIN verdict
           THEN flow' = FlowEnds /\ result' = verdict /\ flow_audit' = flow_audit
           ELSE IF ~verdict.ok
           THEN /\ flow_audit' = log("POLICY_REJECTED", verdict.reason)
                /\ flow' = FlowEnds
                /\ result' = [raised |-> "Exception", message |-> verdict.reason]
           ELSE /\ flow_audit' = log("POLICY_APPROVED", verdict.reason)
                /\ flow' = [flow EXCEPT !.pc = "generate_key"]
                /\ result' = result
    /\ UNCHANGED <<call, flow_keys, flow_inventory, ca_issued, outside_flow>>

\* key_agent.generate_key(cn, key_bits): a reference to the key it created
generate_key(cn, key_bits) == "key:" \o cn \o ":" \o ToString(key_bits)

\* key_ref = generate_key(request["cn"], request["key_bits"])
FlowGenerateKey ==
    /\ flow.pc = "generate_key"
    /\ IF "cn" \notin DOMAIN flow.request
       THEN /\ flow' = FlowEnds
            /\ result' = [raised |-> "KeyError", message |-> "cn"]
            /\ flow_keys' = flow_keys
       ELSE LET key_ref == generate_key(flow.request.cn, flow.request.key_bits)
            IN  /\ flow' = [flow EXCEPT !.pc = "log_key", !.key_ref = key_ref]
                /\ flow_keys' = Append(flow_keys, key_ref)
                /\ result' = result
    /\ UNCHANGED <<call, flow_audit, flow_inventory, ca_issued, outside_flow>>

\* log("KEY_CREATED", key_ref)
FlowLogKey ==
    /\ flow.pc = "log_key"
    /\ flow_audit' = log("KEY_CREATED", flow.key_ref)
    /\ flow' = [flow EXCEPT !.pc = "issue_cert"]
    /\ UNCHANGED <<call, result, flow_keys, flow_inventory, ca_issued, outside_flow>>

\* tools.openssl.create_csr(common_name, key_ref): the text tools/ca.py parses
create_csr(common_name, key_ref) == "CSR(" \o common_name \o ")"

\* cert = issue_cert(request["cn"], key_ref)
FlowIssueCert ==
    /\ flow.pc = "issue_cert"
    /\ LET cert == CaCertificate(create_csr(flow.request.cn, flow.key_ref))
       IN  /\ flow' = [flow EXCEPT !.pc = "log_cert", !.cert = cert]
           /\ ca_issued' = Append(ca_issued, cert)
    /\ UNCHANGED <<call, result, flow_audit, flow_keys, flow_inventory, outside_flow>>

\* log("CERT_ISSUED", cert)
FlowLogCert ==
    /\ flow.pc = "log_cert"
    /\ flow_audit' = log("CERT_ISSUED", flow.cert)
    /\ flow' = [flow EXCEPT !.pc = "store_certificate"]
    /\ UNCHANGED <<call, result, flow_keys, flow_inventory, ca_issued, outside_flow>>

\* inventory_agent.store_certificate(cert)
FlowStoreCertificate ==
    /\ flow.pc = "store_certificate"
    /\ flow_inventory' = Append(flow_inventory, flow.cert)
    /\ flow' = [flow EXCEPT !.pc = "log_inventory"]
    /\ UNCHANGED <<call, result, flow_audit, flow_keys, ca_issued, outside_flow>>

\* log("INVENTORY_UPDATED", cert["serial"]); return cert
FlowLogInventory ==
    /\ flow.pc = "log_inventory"
    /\ flow_audit' = log("INVENTORY_UPDATED", flow.cert.serial)
    /\ result' = flow.cert
    /\ flow' = FlowEnds
    /\ UNCHANGED <<call, flow_keys, flow_inventory, ca_issued, outside_flow>>

----------------------------------------------------------------------------
(* PolicyMCPPlugin *)

\* the state outside PolicyMCPPlugin
outside_policy == <<certificates, cert_keys, operation_log, signed, ca_issued,
                    mgr_certificates, mgr_audit_log, threads, applied, logged, oids,
                    ca_identity, expiry_seen,
        other_components>>

InSeq(x, seq) == \E i \in DOMAIN seq : seq[i] = x

\* str() of a list of strings, as an f-string prints it: ['a', 'b']
RECURSIVE StrItems(_)
StrItems(seq) ==
    IF Len(seq) = 0 THEN ""
    ELSE IF Len(seq) = 1 THEN "'" \o seq[1] \o "'"
    ELSE "'" \o seq[1] \o "', " \o StrItems(Tail(seq))

StrList(seq) == "[" \o StrItems(seq) \o "]"

\* str() of a list of integers: [1, 2]
RECURSIVE IntItems(_)
IntItems(seq) ==
    IF Len(seq) = 0 THEN ""
    ELSE IF Len(seq) = 1 THEN ToString(seq[1])
    ELSE ToString(seq[1]) \o ", " \o IntItems(Tail(seq))

IntList(seq) == "[" \o IntItems(seq) \o "]"

\* faulty variant: only None is false, an empty string or list counts as given
Truthy_unless_none(x) == ~IsNone(x)

\* truth value of an optional string or list argument: None, "" and [] are false
Truthy(x) == ~IsNone(x) /\ Len(Val(x)) > 0

\* faulty variant: a record equal to an earlier one is not stored again
_record_violation_dedup(violation_type, details) ==
    IF \E i \in DOMAIN violations :
          violations[i].type = violation_type /\ violations[i].details = details
    THEN violations
    ELSE Append(violations, [timestamp |-> IsoFormat(now, FALSE),
                             type |-> violation_type, details |-> details])

\* faulty variant: only the newest record is kept
_record_violation_newest_only(violation_type, details) ==
    << [timestamp |-> IsoFormat(now, FALSE), type |-> violation_type, details |-> details] >>

\* self._record_violation(violation_type, details)
_record_violation(violation_type, details) ==
    Append(violations, [timestamp |-> IsoFormat(now, FALSE),
                        type |-> violation_type, details |-> details])

\* faulty variant: the minimum itself is rejected
BelowMinKeySize_inclusive(key_size) == key_size <= policies.key_generation.rsa_min_key_size

\* key_size < key_policy["rsa_min_key_size"]
BelowMinKeySize(key_size) == key_size < policies.key_generation.rsa_min_key_size

\* the violations list validate_key_policy builds
KeyViolations(algorithm, key_size, curve) ==
    LET key_policy == policies.key_generation
        v_algorithm ==
            IF ~InSeq(algorithm, key_policy.allowed_algorithms)
            THEN << "Algorithm '" \o algorithm \o "' not allowed. Allowed: "
                      \o StrList(key_policy.allowed_algorithms) >>
            ELSE << >>
        v_rsa ==
            IF algorithm # "RSA" \/ IsNone(key_size) THEN << >>
            ELSE IF BelowMinKeySize(Val(key_size))
            THEN << "RSA key size " \o ToString(Val(key_size)) \o " below minimum "
                      \o ToString(key_policy.rsa_min_key_size) >>
            ELSE IF ~InSeq(Val(key_size), key_policy.rsa_allowed_sizes)
            THEN << "RSA key size " \o ToString(Val(key_size)) \o " not in allowed sizes: "
                      \o IntList(key_policy.rsa_allowed_sizes) >>
            ELSE << >>
        v_ecc ==
            IF algorithm # "ECC" \/ IsNone(curve) THEN << >>
            ELSE IF ~InSeq(Val(curve), key_policy.ecc_allowed_curves)
            THEN << "ECC curve '" \o Val(curve) \o "' not allowed. Allowed: "
                      \o StrList(key_policy.ecc_allowed_curves) >>
            ELSE << >>
    IN  v_algorithm \o v_rsa \o v_ecc

\* the warnings list validate_key_policy builds
KeyWarnings(algorithm, key_size, curve) ==
    (IF algorithm = "RSA" /\ IsNone(key_size)
     THEN <<"Key size not specified, will use default (2048)">> ELSE << >>)
    \o
    (IF algorithm = "ECC" /\ IsNone(curve)
     THEN <<"Curve not specified, will use default (SECP256R1)">> ELSE << >>)

\* the dict both evaluations return
PolicyVerdict(v, w) ==
    [ success |-> TRUE, compliant |-> Len(v) = 0, violations |-> v, warnings |-> w,
      message |-> IF Len(v) = 0 THEN "Compliant with policy" ELSE "Policy violations found" ]

\* validate_key_policy(algorithm, key_size, curve)
validate_key_policy(algorithm, key_size, curve) ==
    /\ Len(violations) < MaxViolations
    /\ call' = [op |-> "validate_key_policy", algorithm |-> algorithm,
                key_size |-> key_size, curve |-> curve]
    /\ LET v == KeyViolations(algorithm, key_size, curve)
           w == KeyWarnings(algorithm, key_size, curve)
       IN  /\ violations' =
                 IF Len(v) > 0
                 THEN _record_violation("key_generation",
                          [algorithm |-> algorithm, key_size |-> key_size,
                           curve |-> curve, violations |-> v])
                 ELSE violations
           /\ result' = PolicyVerdict(v, w)
    /\ UNCHANGED <<now, outside_policy>>

\* faulty variant: the maximum itself is rejected
ExceedsMaxValidity_inclusive(validity_days) ==
    validity_days >= policies.certificate.max_validity_days

\* validity_days > cert_policy["max_validity_days"]
ExceedsMaxValidity(validity_days) ==
    validity_days > policies.certificate.max_validity_days

\* faulty variant: only the first offender is reported
RECURSIVE InvalidValues_first_only(_, _)
InvalidValues_first_only(values, allowed) ==
    IF Len(values) = 0 THEN << >>
    ELSE IF ~InSeq(Head(values), allowed) THEN <<Head(values)>>
    ELSE InvalidValues_first_only(Tail(values), allowed)

\* [v for v in values if v not in allowed]
RECURSIVE InvalidValues(_, _)
InvalidValues(values, allowed) ==
    IF Len(values) = 0 THEN << >>
    ELSE (IF ~InSeq(Head(values), allowed) THEN <<Head(values)>> ELSE << >>)
         \o InvalidValues(Tail(values), allowed)

InvalidKeyUsagesMessage(invalid_ku) ==
    "Invalid key usages: " \o StrList(invalid_ku) \o ". Allowed: "
        \o StrList(policies.certificate.allowed_key_usages)

InvalidExtendedKeyUsagesMessage(invalid_eku) ==
    "Invalid extended key usages: " \o StrList(invalid_eku) \o ". Allowed: "
        \o StrList(policies.certificate.allowed_extended_key_usages)

\* the violations list validate_certificate_policy builds
CertViolations(validity_days, common_name, organization, country, key_usage, extended_key_usage) ==
    LET cert_policy == policies.certificate
        naming_policy == policies.naming
        v_max ==
            IF ExceedsMaxValidity(validity_days)
            THEN << "Validity period " \o ToString(validity_days) \o " days exceeds maximum "
                      \o ToString(cert_policy.max_validity_days) \o " days" >>
            ELSE << >>
        v_min ==
            IF validity_days < cert_policy.min_validity_days
            THEN << "Validity period " \o ToString(validity_days) \o " days below minimum "
                      \o ToString(cert_policy.min_validity_days) \o " day(s)" >>
            ELSE << >>
        v_organization ==
            IF naming_policy.require_organization /\ ~Truthy(organization)
            THEN <<"Organization name is required by policy">> ELSE << >>
        v_country ==
            IF naming_policy.require_country /\ ~Truthy(country)
            THEN <<"Country code is required by policy">> ELSE << >>
        v_common_name ==
            IF Truthy(common_name)
               /\ Len(Val(common_name)) > naming_policy.max_common_name_length
            THEN << "Common name length " \o ToString(Len(Val(common_name)))
                      \o " exceeds maximum "
                      \o ToString(naming_policy.max_common_name_length) >>
            ELSE << >>
        v_allowed_countries ==
            IF Truthy(naming_policy.allowed_countries) /\ Truthy(country)
               /\ ~InSeq(Val(country), Val(naming_policy.allowed_countries))
            THEN << "Country '" \o Val(country) \o "' not in allowed list: "
                      \o StrList(Val(naming_policy.allowed_countries)) >>
            ELSE << >>
        invalid_ku ==
            IF Truthy(key_usage)
            THEN InvalidValues(Val(key_usage), cert_policy.allowed_key_usages) ELSE << >>
        v_key_usage ==
            IF Len(invalid_ku) > 0 THEN <<InvalidKeyUsagesMessage(invalid_ku)>> ELSE << >>
        invalid_eku ==
            IF Truthy(extended_key_usage)
            THEN InvalidValues(Val(extended_key_usage),
                               cert_policy.allowed_extended_key_usages)
            ELSE << >>
        v_extended_key_usage ==
            IF Len(invalid_eku) > 0
            THEN <<InvalidExtendedKeyUsagesMessage(invalid_eku)>> ELSE << >>
    IN  v_max \o v_min \o v_organization \o v_country \o v_common_name
            \o v_allowed_countries \o v_key_usage \o v_extended_key_usage

\* validate_certificate_policy(validity_days, common_name, organization,
\*                             country, key_usage, extended_key_usage)
validate_certificate_policy(validity_days, common_name, organization, country, key_usage, extended_key_usage) ==
    /\ Len(violations) < MaxViolations
    /\ call' = [op |-> "validate_certificate_policy", validity_days |-> validity_days,
                common_name |-> common_name, organization |-> organization,
                country |-> country, key_usage |-> key_usage,
                extended_key_usage |-> extended_key_usage]
    /\ LET v == CertViolations(validity_days, common_name, organization, country,
                               key_usage, extended_key_usage)
       IN  /\ violations' =
                 IF Len(v) > 0
                 THEN _record_violation("certificate",
                          [validity_days |-> validity_days, common_name |-> common_name,
                           violations |-> v])
                 ELSE violations
           /\ result' = PolicyVerdict(v, << >>)
    /\ UNCHANGED <<now, outside_policy>>

\* the clock of the policy plugin
PolicyTick ==
    /\ now < MaxTime
    /\ now' = now + 1
    /\ UNCHANGED <<call, result, violations, outside_policy>>

\* not_valid_after.replace('Z', '+00:00') on a timestamp's zone suffix
ReplaceZ(s) == IF s.tz = "Z" THEN [s EXCEPT !.tz = "+00:00"] ELSE s

\* datetime.fromisoformat: a naive or an offset-aware datetime, or ValueError
FromIsoFormat(s) ==
    IF s.tz = "" THEN [ok |-> TRUE, t |-> s.iso, aware |-> FALSE]
    ELSE IF s.tz = "+00:00" THEN [ok |-> TRUE, t |-> s.iso, aware |-> TRUE]
    ELSE [ok |-> FALSE]

\* faulty variant: the classification looks at the violation log as well
ExpiryStatus_by_violations(days_until_expiry) ==
    IF days_until_expiry < 0 \/ Len(violations) > 0 THEN "expired"
    ELSE IF days_until_expiry <= policies.lifecycle.renewal_warning_days THEN "expiring_soon"
    ELSE "valid"

\* the classification check_certificate_expiry derives from the days left
ExpiryStatus(days_until_expiry) ==
    IF days_until_expiry < 0 THEN "expired"
    ELSE IF days_until_expiry <= policies.lifecycle.renewal_warning_days THEN "expiring_soon"
    ELSE "valid"

\* what check_certificate_expiry returns when its clock reads t
ExpiryOutput(not_valid_after, t) ==
    LET expiry_date == FromIsoFormat(ReplaceZ(not_valid_after))
    IN  IF ~expiry_date.ok
        THEN [success |-> FALSE, error |-> "Expiry check failed: Invalid isoformat string"]
        ELSE IF expiry_date.aware
        THEN [success |-> FALSE,
              error |-> "Expiry check failed: can't subtract offset-naive and offset-aware datetimes"]
        ELSE LET days_until_expiry == expiry_date.t - t
                 status == ExpiryStatus(days_until_expiry)
             IN  [ success |-> TRUE, status |-> status,
                   days_until_expiry |-> days_until_expiry,
                   expiry_date |-> not_valid_after,
                   needs_renewal |-> (status = "expiring_soon"),
                   message |-> "Certificate " \o status \o " ("
                                  \o ToString(days_until_expiry) \o " days remaining)" ]

\* faulty variant: an expired or unreadable timestamp is recorded as a violation
ExpiryEffect_records(output) ==
    violations' = IF output.success /\ output.status # "expired" THEN violations
                  ELSE _record_violation("expiry", output)

\* what check_certificate_expiry writes to the plugin: nothing
ExpiryEffect(output) == violations' = violations

\* check_certificate_expiry(not_valid_after)
check_certificate_expiry(not_valid_after) ==
    /\ call' = [op |-> "check_certificate_expiry", not_valid_after |-> not_valid_after]
    /\ result' = ExpiryOutput(not_valid_after, now)
    /\ ExpiryEffect(ExpiryOutput(not_valid_after, now))
    /\ expiry_seen' =
          IF expiry_seen = << >>
          THEN << [not_valid_after |-> not_valid_after, at |-> now,
                   violations_then |-> Len(violations),
                   output |-> ExpiryOutput(not_valid_after, now)] >>
          ELSE expiry_seen
    /\ UNCHANGED <<now, certificates, cert_keys, operation_log, signed, ca_issued,
                   mgr_certificates, mgr_audit_log, threads, applied, logged, oids,
                   ca_identity, other_components>>

\* list(self.policies.keys())
PolicyCategories == <<"key_generation", "certificate", "naming", "lifecycle">>

\* get_policy(policy_category)
get_policy(policy_category) ==
    /\ call' = [op |-> "get_policy", policy_category |-> policy_category]
    /\ result' =
          IF policy_category = "all"
          THEN [success |-> TRUE, policies |-> policies, message |-> "Retrieved all policies"]
          ELSE IF policy_category \in DOMAIN policies
          THEN [success |-> TRUE, category |-> policy_category,
                policy |-> policies[policy_category],
                message |-> "Retrieved " \o policy_category \o " policy"]
          ELSE [success |-> FALSE,
                error |-> "Policy category '" \o policy_category \o "' not found"]
    /\ UNCHANGED <<now, violations, outside_policy>>

\* seq[start:] as Python slices: a negative start counts from the end, and
\* both ends are clipped to the list
SliceFrom(seq, start) ==
    LET n == Len(seq)
        first == IF start < 0 THEN (IF n + start < 0 THEN 0 ELSE n + start)
                 ELSE (IF start > n THEN n ELSE start)
    IN  SubSeq(seq, first + 1, n)

\* seq[-limit:] if limit else seq
Recent(seq, limit) == IF limit # 0 THEN SliceFrom(seq, -limit) ELSE seq

\* list_violations(limit)
list_violations(limit) ==
    /\ call' = [op |-> "list_violations", limit |-> limit]
    /\ LET recent_violations == Recent(violations, limit)
       IN  result' = [ success |-> TRUE, total_violations |-> Len(violations),
                       violations |-> recent_violations,
                       message |-> "Retrieved " \o ToString(Len(recent_violations))
                                      \o " violations" ]
    /\ UNCHANGED <<now, violations, outside_policy>>

\* violation_by_type of compliance_report: the count of each type present
ViolationByType ==
    [ v_type \in {violations[i].type : i \in DOMAIN violations} |->
        Cardinality({i \in DOMAIN violations : violations[i].type = v_type}) ]

\* compliance_report(include_violations)
compliance_report(include_violations) ==
    /\ call' = [op |-> "compliance_report", include_violations |-> include_violations]
    /\ LET total_violations == Len(violations)
           report == [ success |-> TRUE, generated_at |-> IsoFormat(now, FALSE),
                       total_violations |-> total_violations,
                       violations_by_type |-> ViolationByType,
                       compliance_status |->
                           IF total_violations = 0 THEN "COMPLIANT" ELSE "NON-COMPLIANT",
                       policies_enforced |-> PolicyCategories ]
       IN  result' = IF include_violations /\ total_violations > 0
                     THEN SetKey(report, "recent_violations", SliceFrom(violations, -10))
                     ELSE report
    /\ UNCHANGED <<now, violations, outside_policy>>

----------------------------------------------------------------------------
(* MCPPluginManager.execute_tool: the first plugin, in load order, that has an
   attribute named tool_name gets the call; hasattr finds methods, private
   helpers and data attributes alike *)

\* self.plugins in insertion order
Plugins == <<"crypto", "pki", "policy">>

\* the methods of each plugin class
PluginMethods ==
    [ crypto |-> {"get_tools", "_log_operation", "generate_key_pair", "create_csr",
                  "validate_csr", "get_key_info", "list_operations"},
      pki    |-> {"_initialize_demo_ca", "get_tools", "_log_operation",
                  "issue_certificate", "revoke_certificate", "renew_certificate",
                  "get_certificate", "list_certificates", "get_ca_certificate"},
      policy |-> {"_load_default_policies", "get_tools", "_record_violation",
                  "validate_key_policy", "validate_certificate_policy",
                  "check_certificate_expiry", "get_policy", "list_violations",
                  "compliance_report"} ]

\* the data attributes each __init__ sets
PluginData ==
    [ crypto |-> {"key_store", "csr_store", "operation_log"},
      pki    |-> {"certificates", "ca_key", "ca_cert", "operation_log"},
      policy |-> {"policies", "violations"} ]

\* the tool names each plugin's get_tools() advertises
AdvertisedTools ==
    [ crypto |-> {"generate_key_pair", "create_csr", "validate_csr", "get_key_info",
                  "list_operations"},
      pki    |-> {"issue_certificate", "revoke_certificate", "renew_certificate",
                  "get_certificate", "list_certificates", "get_ca_certificate"},
      policy |-> {"validate_key_policy", "validate_certificate_policy",
                  "check_certificate_expiry", "get_policy", "list_violations",
                  "compliance_report"} ]

\* hasattr(plugin, tool_name)
HasAttr(plugin, tool_name) ==
    tool_name \in PluginMethods[plugin] \cup PluginData[plugin]

\* the plugins the loop of execute_tool finds the attribute on, first one first
Resolved(tool_name) == SelectSeq(Plugins, LAMBDA plugin : HasAttr(plugin, tool_name))

\* the parameters a method cannot be called without
RequiredParameters(tool_name) ==
    CASE tool_name = "issue_certificate" -> {"csr_pem", "cert_id"}
      [] tool_name \in {"revoke_certificate", "renew_certificate", "get_certificate"}
            -> {"cert_id"}
      [] tool_name = "validate_key_policy" -> {"algorithm"}
      [] tool_name = "validate_certificate_policy" -> {"validity_days"}
      [] tool_name = "check_certificate_expiry" -> {"not_valid_after"}
      [] tool_name = "_record_violation" -> {"violation_type", "details"}
      [] tool_name = "_log_operation" -> {"operation", "details"}
      [] OTHER -> {}

\* an exception leaving execute_tool
Raised(exception, message) == [raised |-> exception, message |-> message]

\* execute_tool(tool_name, parameters) where no method gets to run:
\* parameters is the set of parameter names given
execute_tool_raises(tool_name, parameters) ==
    /\ call' = [op |-> "execute_tool", tool_name |-> tool_name, parameters |-> parameters]
    /\ \/ /\ Resolved(tool_name) = << >>
          /\ result' = Raised("ValueError",
                              "Tool '" \o tool_name \o "' not found in any plugin")
       \/ /\ Resolved(tool_name) # << >>
          /\ tool_name \in PluginData[Head(Resolved(tool_name))]
          /\ result' = Raised("TypeError", "object is not callable")
       \/ /\ Resolved(tool_name) # << >>
          /\ tool_name \in PluginMethods[Head(Resolved(tool_name))]
          /\ ~(RequiredParameters(tool_name) \subseteq parameters)
          /\ result' = Raised("TypeError", tool_name
                                 \o "() missing required positional argument")
    /\ UNCHANGED <<certificates, cert_keys, operation_log, now, signed, outside_pki>>

\* execute_tool("_initialize_demo_ca", {}): hasattr finds the private method
\* on the PKI plugin, which generates a new key, builds a new authority
\* certificate for it and returns None
_initialize_demo_ca(serial) ==
    /\ ca_key < MaxCaKeys
    /\ Head(Resolved("_initialize_demo_ca")) = "pki"
    /\ call' = [op |-> "execute_tool", tool_name |-> "_initialize_demo_ca",
                parameters |-> {}]
    /\ ca_key' = ca_key + 1
    /\ ca_cert' = DemoCaCertificate(ca_key + 1, serial, now)
    /\ result' = [value |-> "None"]
    /\ UNCHANGED <<certificates, cert_keys, operation_log, now, signed, ca_issued,
                   violations, mgr_certificates, mgr_audit_log, threads, applied, logged,
                   oids, expiry_seen,
        other_components>>

----------------------------------------------------------------------------
(* CryptoMCPPlugin *)

\* the state outside CryptoMCPPlugin
outside_crypto ==
    <<certificates, cert_keys, operation_log, now, signed, ca_issued, violations,
      mgr_certificates, mgr_audit_log, threads, applied, logged, oids, ca_identity,
      expiry_seen, flow_state, mgr_threads, chat_state>>

\* the private key a generation creates: a fresh one each time, numbered by
\* the generations logged so far
FreshKey ==
    1 + Cardinality({i \in DOMAIN crypto_log :
                        crypto_log[i].operation = "generate_key_pair"})

\* the key_info generate_key_pair builds, or the error it returns
GenerateKeyInfo(algorithm, key_size, curve) ==
    IF algorithm = "RSA"
    THEN LET size == IF IsNone(key_size) \/ Val(key_size) = 0 THEN 2048 ELSE Val(key_size)
         IN  IF size \notin {2048, 3072, 4096}
             THEN Fail("Invalid RSA key size: " \o ToString(size)
                          \o ". Must be 2048, 3072, or 4096.")
             ELSE [algorithm |-> "RSA", key_size |-> size, public_exponent |-> 65537]
    ELSE IF algorithm = "ECC"
    THEN LET name == IF IsNone(curve) \/ Val(curve) = "" THEN "SECP256R1" ELSE Val(curve)
         IN  IF name \notin {"SECP256R1", "SECP384R1", "SECP521R1"}
             THEN Fail("Invalid ECC curve: " \o name)
             ELSE [algorithm |-> "ECC", curve |-> name]
    ELSE Fail("Unsupported algorithm: " \o algorithm)

\* generate_key_pair(algorithm, key_id, key_size, curve)
generate_key_pair(algorithm, key_id, key_size, curve) ==
    /\ Len(crypto_log) < MaxCryptoLog
    /\ call' = [op |-> "generate_key_pair", algorithm |-> algorithm, key_id |-> key_id,
                key_size |-> key_size, curve |-> curve]
    /\ LET key_info == GenerateKeyInfo(algorithm, key_size, curve)
       IN  IF "success" \in DOMAIN key_info
           THEN /\ result' = key_info
                /\ UNCHANGED <<key_store, crypto_log>>
           ELSE /\ key_store' =
                     SetKey(key_store, key_id,
                            [private_key |-> FreshKey, public_key |-> FreshKey,
                             info |-> key_info, created_at |-> IsoFormat(now, FALSE)])
                /\ crypto_log' =
                     Append(crypto_log,
                            LogEntry(now, "generate_key_pair",
                                     [key_id |-> key_id, algorithm |-> algorithm,
                                      key_info |-> key_info]))
                /\ result' = [success |-> TRUE, key_id |-> key_id, algorithm |-> algorithm,
                              key_info |-> key_info, public_key_pem |-> FreshKey,
                              message |-> algorithm \o " key pair generated successfully"]
    /\ UNCHANGED <<csr_store, outside_crypto>>

\* create_csr(key_id, common_name): the request is signed with the private key
\* stored under key_id and stored under "csr_<key_id>"
crypto_create_csr(key_id, common_name) ==
    /\ Len(crypto_log) < MaxCryptoLog
    /\ call' = [op |-> "create_csr", key_id |-> key_id, common_name |-> common_name]
    /\ IF key_id \notin DOMAIN key_store
       THEN /\ result' = Fail("Key ID '" \o key_id \o "' not found. Generate key pair first.")
            /\ UNCHANGED <<csr_store, crypto_log>>
       ELSE LET private_key == key_store[key_id].private_key
                csr == [subject |-> common_name, public_key |-> private_key,
                        signed_with |-> private_key]
                csr_id == "csr_" \o key_id
            IN  /\ csr_store' =
                      SetKey(csr_store, csr_id,
                             [csr |-> csr, key_id |-> key_id, subject |-> common_name,
                              created_at |-> IsoFormat(now, FALSE)])
                /\ crypto_log' =
                      Append(crypto_log,
                             LogEntry(now, "create_csr",
                                      [csr_id |-> csr_id, key_id |-> key_id,
                                       common_name |-> common_name,
                                       organization |-> << >>]))
                /\ result' = [success |-> TRUE, csr_id |-> csr_id, key_id |-> key_id,
                              subject |-> common_name, csr_pem |-> csr,
                              message |-> "CSR created successfully"]
    /\ UNCHANGED <<key_store, outside_crypto>>

\* get_key_info(key_id)
get_key_info(key_id) ==
    /\ call' = [op |-> "get_key_info", key_id |-> key_id]
    /\ result' =
          IF key_id \notin DOMAIN key_store
          THEN Fail("Key ID '" \o key_id \o "' not found")
          ELSE [success |-> TRUE, key_id |-> key_id, info |-> key_store[key_id].info,
                created_at |-> key_store[key_id].created_at,
                has_csr |-> ("csr_" \o key_id) \in DOMAIN csr_store]
    /\ UNCHANGED <<key_store, csr_store, crypto_log, outside_crypto>>

----------------------------------------------------------------------------
(* BedrockCryptoAgent.chat: the request to the model, the tool calls it asks
   for and the turns added to the conversation history *)

\* the state outside the agent; the tools it runs write call and result
outside_chat ==
    <<certificates, cert_keys, operation_log, now, signed, ca_issued, violations,
      mgr_certificates, mgr_audit_log, threads, applied, logged, oids, ca_identity,
      expiry_seen, flow_state, mgr_threads, crypto_state>>

\* one message of the conversation: kind tells a text from a list of blocks
Message(role, kind, content) == [role |-> role, kind |-> kind, content |-> content]

\* _extract_text_response(response_body)
RECURSIVE _extract_text_response(_)
_extract_text_response(content) ==
    IF content = << >> THEN ""
    ELSE LET rest == _extract_text_response(Tail(content))
         IN  IF Head(content).type # "text" THEN rest
             ELSE IF rest = "" /\ \A i \in 2..Len(content) : content[i].type # "text"
                  THEN Head(content).text
                  ELSE Head(content).text \o "\n" \o rest

\* the tool_use blocks of a response
ToolUseBlocks(content) == SelectSeq(content, LAMBDA block : block.type = "tool_use")

\* the end of chat: the user message and the final response are appended
ChatFinish(final_response) ==
    /\ conversation_history' =
          conversation_history \o << Message("user", "text", chat.user_message),
                                     Message("assistant", "text", final_response) >>
    /\ result' = [returned |-> final_response]
    /\ chat' = [ChatIdle EXCEPT !.chats = chat.chats]

\* the except branch of chat: the error text is returned
ChatFails ==
    /\ result' = [returned |-> "Error during chat"]
    /\ chat' = [ChatIdle EXCEPT !.chats = chat.chats]

\* chat(user_message) entered
ChatCall(user_message) ==
    /\ chat.pc = "idle"
    /\ chat.chats < MaxChats
    /\ chat' = [chat EXCEPT !.pc = "invoke", !.chats = @ + 1, !.user_message = user_message]
    /\ call' = [op |-> "chat", user_message |-> user_message]
    /\ UNCHANGED <<result, conversation_history, outside_chat>>

\* response_body = self._invoke_bedrock(user_message); without tool use the
\* text of the response is the final response
ChatInvoke(response) ==
    /\ chat.pc = "invoke"
    /\ IF response = << >>
       THEN ChatFails /\ conversation_history' = conversation_history
       ELSE LET response_body == response[1]
                blocks == ToolUseBlocks(response_body.content)
            IN  IF response_body.stop_reason # "tool_use" \/ blocks = << >>
                THEN ChatFinish(_extract_text_response(response_body.content))
                ELSE /\ chat' = [chat EXCEPT !.pc = "execute",
                                    !.content = response_body.content,
                                    !.pending = blocks]
                     /\ UNCHANGED <<result, conversation_history>>
    /\ UNCHANGED <<call, outside_chat>>

\* self.plugin_manager.execute_tool(tool_name, tool_input) for the next block
ChatExecuteTool ==
    /\ chat.pc = "execute"
    /\ call.op = "chat"
    /\ IF Head(chat.pending).name = "get_ca_certificate"
       THEN get_ca_certificate
       ELSE execute_tool_raises(Head(chat.pending).name, {})

\* tool_results.append({...}): the result, or the error of a tool that raised
ChatToolResult ==
    /\ chat.pc = "execute"
    /\ call.op # "chat"
    /\ LET block == Head(chat.pending)
           tool_result ==
               IF "raised" \in DOMAIN result
               THEN [type |-> "tool_result", tool_use_id |-> block.id, is_error |-> TRUE,
                     content |-> [error |-> "Tool execution failed: " \o result.message]]
               ELSE [type |-> "tool_result", tool_use_id |-> block.id, is_error |-> FALSE,
                     content |-> result]
       IN  chat' = [chat EXCEPT !.pending = Tail(chat.pending),
                                !.tool_results = Append(chat.tool_results, tool_result),
                                !.pc = IF Len(chat.pending) = 1 THEN "continue"
                                                               ELSE "execute"]
    /\ call' = [op |-> "chat", user_message |-> chat.user_message]
    /\ UNCHANGED <<result, conversation_history, outside_chat>>

\* the tool_use turn and the tool results are appended to the history
ChatAppendToolTurns ==
    /\ chat.pc = "continue"
    /\ conversation_history' =
          conversation_history \o << Message("assistant", "tool_use", chat.content),
                                     Message("user", "tool_result", chat.tool_results) >>
    /\ chat' = [chat EXCEPT !.pc = "final"]
    /\ UNCHANGED <<call, result, outside_chat>>

\* final_response = self._invoke_bedrock(""); its text, or when that is empty
\* the text of the first response, is the final response of chat
ChatFinal(response) ==
    /\ chat.pc = "final"
    /\ IF response = << >>
       THEN ChatFails /\ conversation_history' = conversation_history
       ELSE LET tool_response == _extract_text_response(response[1].content)
            IN  ChatFinish(IF tool_response # "" THEN tool_response
                           ELSE _extract_text_response(chat.content))
    /\ UNCHANGED <<call, outside_chat>>

----------------------------------------------------------------------------
(* PolicyAgent and SimplePKIManager of bedrock_agent-aws.py *)

\* the state outside SimplePKIManager
outside_mgr == <<certificates, cert_keys, operation_log, signed, ca_issued,
                 violations, threads, applied, logged, oids, ca_identity, expiry_seen,
        other_components>>

\* PolicyAgent.policy
mgr_policy ==
    [ version |-> "2.3",
      algorithms |->
        [ RSA |-> [allowed |-> TRUE, min_key_size |-> 3072, max_key_size |-> 8192],
          ECC |-> [allowed |-> TRUE, allowed_curves |-> <<"P-256", "P-384", "P-521">>],
          DSA |-> [allowed |-> FALSE, reason |-> "Deprecated - use RSA or ECC"] ],
      certificates |-> [max_validity_days |-> 397, min_validity_days |-> 1] ]

\* faulty variant: the RSA key size is not looked at
validate_skips_key_size(algorithm, key_size, validity_days) ==
    IF algorithm \notin DOMAIN mgr_policy.algorithms
    THEN [approved |-> FALSE, reason |-> "Algorithm " \o algorithm \o " not recognized"]
    ELSE LET algo_policy == mgr_policy.algorithms[algorithm]
         IN  IF ~algo_policy.allowed
             THEN [approved |-> FALSE,
                   reason |-> "Algorithm " \o algorithm \o " not allowed: "
                                 \o algo_policy.reason]
             ELSE IF validity_days > mgr_policy.certificates.max_validity_days
             THEN [approved |-> FALSE,
                   reason |-> "Validity " \o ToString(validity_days) \o " exceeds maximum "
                                 \o ToString(mgr_policy.certificates.max_validity_days)]
             ELSE [approved |-> TRUE,
                   reason |-> "Approved under policy v" \o mgr_policy.version]

\* PolicyAgent.validate(algorithm, key_size, validity_days)
validate(algorithm, key_size, validity_days) ==
    IF algorithm \notin DOMAIN mgr_policy.algorithms
    THEN [approved |-> FALSE, reason |-> "Algorithm " \o algorithm \o " not recognized"]
    ELSE LET algo_policy == mgr_policy.algorithms[algorithm]
         IN  IF ~algo_policy.allowed
             THEN [approved |-> FALSE,
                   reason |-> "Algorithm " \o algorithm \o " not allowed: "
                                 \o algo_policy.reason]
             ELSE IF algorithm = "RSA" /\ key_size < algo_policy.min_key_size
             THEN [approved |-> FALSE,
                   reason |-> "Key size " \o ToString(key_size) \o " below minimum "
                                 \o ToString(algo_policy.min_key_size)]
             ELSE IF validity_days > mgr_policy.certificates.max_validity_days
             THEN [approved |-> FALSE,
                   reason |-> "Validity " \o ToString(validity_days) \o " exceeds maximum "
                                 \o ToString(mgr_policy.certificates.max_validity_days)]
             ELSE [approved |-> TRUE,
                   reason |-> "Approved under policy v" \o mgr_policy.version]

\* f"{n:04d}"
Pad4(n) ==
    IF n < 10 THEN "000" \o ToString(n)
    ELSE IF n < 100 THEN "00" \o ToString(n)
    ELSE IF n < 1000 THEN "0" \o ToString(n)
    ELSE ToString(n)

\* the entry SimplePKIManager.log_event appends
AuditEvent(event_type, details) ==
    [timestamp |-> IsoFormat(now, FALSE), event_type |-> event_type, details |-> details]

\* faulty variant: the CERTIFICATE_ISSUED event is written before the verdict is looked at
mgr_issue_certificate_logs_early(subject, algorithm, key_size, validity_days) ==
    /\ Len(mgr_certificates) < MaxMgrCertificates
    /\ Len(mgr_audit_log) < MaxMgrAudit
    /\ call' = [op |-> "SimplePKIManager.issue_certificate", subject |-> subject,
                algorithm |-> algorithm, key_size |-> key_size,
                validity_days |-> validity_days]
    /\ LET policy_result == validate(algorithm, key_size, validity_days)
           checked == Append(mgr_audit_log,
                             AuditEvent("POLICY_CHECK",
                                        [approved |-> policy_result.approved,
                                         reason |-> policy_result.reason]))
           cert_id == "cert-" \o ToString(Len(mgr_certificates) + 1)
           serial == "DEMO-" \o Pad4(Len(mgr_certificates) + 1)
           not_before == now
           not_after == not_before + validity_days
           cert == [cert_id |-> cert_id, subject |-> subject, serial_number |-> serial,
                    algorithm |-> algorithm, key_size |-> key_size,
                    not_before |-> IsoFormat(not_before, FALSE),
                    not_after |-> IsoFormat(not_after, FALSE), status |-> "active"]
       IN  IF ~policy_result.approved
           THEN /\ mgr_audit_log' =
                      Append(checked, AuditEvent("CERTIFICATE_ISSUED",
                                                 [cert_id |-> cert_id, subject |-> subject]))
                /\ mgr_certificates' = mgr_certificates
                /\ result' = [success |-> FALSE,
                              error |-> "Policy violation: " \o policy_result.reason]
           ELSE /\ mgr_certificates' = Append(mgr_certificates, cert)
                /\ mgr_audit_log' =
                      Append(checked, AuditEvent("CERTIFICATE_ISSUED",
                                                 [cert_id |-> cert_id, subject |-> subject]))
                /\ result' = [success |-> TRUE, cert_id |-> cert_id,
                              serial_number |-> serial,
                              not_after |-> IsoFormat(not_after, FALSE)]
    /\ UNCHANGED <<now, outside_mgr>>

\* SimplePKIManager.issue_certificate(subject, algorithm, key_size, validity_days)
mgr_issue_certificate(subject, algorithm, key_size, validity_days) ==
    /\ Len(mgr_certificates) < MaxMgrCertificates
    /\ Len(mgr_audit_log) < MaxMgrAudit
    /\ call' = [op |-> "SimplePKIManager.issue_certificate", subject |-> subject,
                algorithm |-> algorithm, key_size |-> key_size,
                validity_days |-> validity_days]
    /\ LET policy_result == validate(algorithm, key_size, validity_days)
           checked == Append(mgr_audit_log,
                             AuditEvent("POLICY_CHECK",
                                        [approved |-> policy_result.approved,
                                         reason |-> policy_result.reason]))
           cert_id == "cert-" \o ToString(Len(mgr_certificates) + 1)
           serial == "DEMO-" \o Pad4(Len(mgr_certificates) + 1)
           not_before == now
           not_after == not_before + validity_days
           cert == [cert_id |-> cert_id, subject |-> subject, serial_number |-> serial,
                    algorithm |-> algorithm, key_size |-> key_size,
                    not_before |-> IsoFormat(not_before, FALSE),
                    not_after |-> IsoFormat(not_after, FALSE), status |-> "active"]
       IN  IF ~policy_result.approved
           THEN /\ mgr_audit_log' = checked
                /\ mgr_certificates' = mgr_certificates
                /\ result' = [success |-> FALSE,
                              error |-> "Policy violation: " \o policy_result.reason]
           ELSE /\ mgr_certificates' = Append(mgr_certificates, cert)
                /\ mgr_audit_log' =
                      Append(checked, AuditEvent("CERTIFICATE_ISSUED",
                                                 [cert_id |-> cert_id, subject |-> subject]))
                /\ result' = [success |-> TRUE, cert_id |-> cert_id,
                              serial_number |-> serial,
                              not_after |-> IsoFormat(not_after, FALSE)]
    /\ UNCHANGED <<now, outside_mgr>>

\* the clock of the manager
MgrTick ==
    /\ now < MaxTime
    /\ now' = now + 1
    /\ UNCHANGED <<call, result, mgr_certificates, mgr_audit_log, outside_mgr>>

----------------------------------------------------------------------------
(* SimplePKIManager.issue_certificate under concurrent callers: one step per
   statement that reads or writes the shared lists *)

\* the state outside the manager and its callers
outside_mgr_conc ==
    <<certificates, cert_keys, operation_log, signed, ca_issued, violations, threads,
      applied, logged, oids, ca_identity, expiry_seen, flow_state, crypto_state,
      chat_state, now, call, result>>

\* the caller's locals after its call returned res
MgrReturned(t, res) == [MgrIdle EXCEPT !.calls = mgr_threads[t].calls, !.result = res]

\* policy_result = validate(...); log_event("POLICY_CHECK", ...); a rejection returns
MgrConcCall(t, r) ==
    /\ mgr_threads[t].pc = "idle"
    /\ mgr_threads[t].calls < MaxConcCalls
    /\ LET policy_result == validate(r.algorithm, r.key_size, r.validity_days)
           entered == [mgr_threads[t] EXCEPT !.calls = @ + 1]
       IN  /\ mgr_audit_log' =
                 Append(mgr_audit_log,
                        AuditEvent("POLICY_CHECK", [approved |-> policy_result.approved,
                                                    reason |-> policy_result.reason]))
           /\ mgr_threads' =
                 [mgr_threads EXCEPT ![t] =
                    IF ~policy_result.approved
                    THEN [MgrIdle EXCEPT !.calls = entered.calls,
                            !.result = [success |-> FALSE,
                                        error |-> "Policy violation: "
                                                     \o policy_result.reason]]
                    ELSE [entered EXCEPT !.pc = "cert_id", !.subject = r.subject,
                            !.algorithm = r.algorithm, !.key_size = r.key_size,
                            !.validity_days = r.validity_days]]
    /\ UNCHANGED <<mgr_certificates, outside_mgr_conc>>

\* cert_id = f"cert-{len(self.certificates) + 1}"
MgrConcCertId(t) ==
    /\ mgr_threads[t].pc = "cert_id"
    /\ mgr_threads' = [mgr_threads EXCEPT ![t].pc = "serial",
                          ![t].cert_id = "cert-" \o ToString(Len(mgr_certificates) + 1)]
    /\ UNCHANGED <<mgr_certificates, mgr_audit_log, outside_mgr_conc>>

\* serial = f"DEMO-{len(self.certificates) + 1:04d}"
MgrConcSerial(t) ==
    /\ mgr_threads[t].pc = "serial"
    /\ mgr_threads' = [mgr_threads EXCEPT ![t].pc = "append",
                          ![t].serial = "DEMO-" \o Pad4(Len(mgr_certificates) + 1)]
    /\ UNCHANGED <<mgr_certificates, mgr_audit_log, outside_mgr_conc>>

\* not_before = datetime.now(); cert = {...}; self.certificates.append(cert)
MgrConcAppend(t) ==
    /\ mgr_threads[t].pc = "append"
    /\ LET l == mgr_threads[t]
       IN  mgr_certificates' =
              Append(mgr_certificates,
                     [cert_id |-> l.cert_id, subject |-> l.subject,
                      serial_number |-> l.serial, algorithm |-> l.algorithm,
                      key_size |-> l.key_size, not_before |-> IsoFormat(now, FALSE),
                      not_after |-> IsoFormat(now + l.validity_days, FALSE),
                      status |-> "active"])
    /\ mgr_threads' = [mgr_threads EXCEPT ![t].pc = "log"]
    /\ UNCHANGED <<mgr_audit_log, outside_mgr_conc>>

\* self.log_event("CERTIFICATE_ISSUED", ...); return {...}
MgrConcLog(t) ==
    /\ mgr_threads[t].pc = "log"
    /\ LET l == mgr_threads[t]
       IN  /\ mgr_audit_log' =
                 Append(mgr_audit_log,
                        AuditEvent("CERTIFICATE_ISSUED",
                                   [cert_id |-> l.cert_id, subject |-> l.subject]))
           /\ mgr_threads' =
                 [mgr_threads EXCEPT ![t] =
                    MgrReturned(t, [success |-> TRUE, cert_id |-> l.cert_id,
                                    serial_number |-> l.serial,
                                    not_after |-> IsoFormat(now + l.validity_days, FALSE)])]
    /\ UNCHANGED <<mgr_certificates, outside_mgr_conc>>

----------------------------------------------------------------------------
(* PKIMCPPlugin under concurrent callers: one step per statement that reads or
   writes self.certificates, a record of it, or self.operation_log. The plugin
   takes no lock, so the callers' steps interleave freely. A record is a dict
   object: oids names the object stored under each cert_id, a caller's ref the
   object it fetched, and a write through a ref whose object has been replaced
   in the registry lands on the replaced object (orphan), not on the registry. *)

\* the state the concurrent steps leave alone
outside_conc == <<now, call, result, ca_issued, violations, mgr_certificates,
                  mgr_audit_log, ca_identity, expiry_seen,
        other_components>>

\* the caller's locals after its call returned res
Returned(t, res) ==
    [threads[t] EXCEPT !.pc = "idle", !.ref = 0, !.new_ref = 0, !.orphan = << >>,
                       !.certificate = << >>, !.result = res]

\* the call a caller is in, as the ghost sequences name it
CallId(t) == <<t, threads[t].calls>>

\* the object the caller fetched is still the one the registry holds
Live(t) ==
    /\ threads[t].cert_id \in DOMAIN certificates
    /\ oids[threads[t].cert_id] = threads[t].ref

\* the record behind the caller's reference
CertData(t) == IF Live(t) THEN certificates[threads[t].cert_id] ELSE Val(threads[t].orphan)

\* self.certificates[key] = record, the new object being new_ref: callers that
\* hold the replaced object keep it as an orphan
StoreObject(t, key, record, next_pc) ==
    /\ certificates' = SetKey(certificates, key, record)
    /\ cert_keys' = KeyOrderAfterSet(cert_keys, certificates, key)
    /\ oids' = SetKey(oids, key, threads[t].new_ref)
    /\ threads' =
          [u \in Threads |->
              IF u = t THEN [threads[t] EXCEPT !.pc = next_pc]
              ELSE IF /\ key \in DOMAIN certificates
                      /\ threads[u].ref = oids[key]
              THEN [threads[u] EXCEPT !.orphan = <<certificates[key]>>]
              ELSE threads[u]]

\* cert_data[k] = v through the caller's reference
WriteField(t, k, v, next_pc) ==
    IF Live(t)
    THEN /\ certificates' = SetKey(certificates, threads[t].cert_id,
                                   SetKey(certificates[threads[t].cert_id], k, v))
         /\ threads' = [threads EXCEPT ![t].pc = next_pc]
    ELSE /\ certificates' = certificates
         /\ threads' =
               [u \in Threads |->
                   LET th == IF threads[u].ref = threads[t].ref /\ threads[u].orphan # << >>
                             THEN [threads[u] EXCEPT !.orphan = <<SetKey(@[1], k, v)>>]
                             ELSE threads[u]
                   IN  IF u = t THEN [th EXCEPT !.pc = next_pc] ELSE th]

\* a caller enters issue_certificate: the request is loaded, verified, built
\* and signed on the caller's own stack
ConcIssueCall(t, serial) ==
    /\ threads[t].pc = "idle"
    /\ threads[t].calls < MaxConcCalls
    /\ LET certificate == Certificate(ConcCsr.subject, ConcCsr.public_key, serial,
                                      now, now + ConcValidityDays)
       IN  /\ signed' = Append(signed, certificate)
           /\ threads' = [threads EXCEPT ![t] =
                 [@ EXCEPT !.pc = "issue_store", !.op = "issue_certificate",
                           !.cert_id = ConcCertId, !.validity_days = ConcValidityDays,
                           !.calls = @ + 1, !.new_ref = Len(signed) + 1,
                           !.certificate = <<certificate>>]]
    /\ UNCHANGED <<certificates, cert_keys, operation_log, applied, logged, oids,
                   outside_conc>>

\* self.certificates[cert_id] = {...}
ConcIssueStore(t) ==
    /\ threads[t].pc = "issue_store"
    /\ StoreObject(t, threads[t].cert_id,
                   IssuedRecord(threads[t].certificate[1], now), "issue_log")
    /\ applied' = Append(applied, CallId(t))
    /\ UNCHANGED <<operation_log, signed, logged, outside_conc>>

\* self._log_operation("issue_certificate", ...) and the return
ConcIssueLog(t) ==
    /\ threads[t].pc = "issue_log"
    /\ LET certificate == threads[t].certificate[1]
       IN  /\ operation_log' = _log_operation(now, "issue_certificate",
                   [cert_id |-> threads[t].cert_id, subject |-> certificate.subject,
                    validity_days |-> threads[t].validity_days])
           /\ threads' = [threads EXCEPT ![t] = Returned(t,
                   [success |-> TRUE, cert_id |-> threads[t].cert_id,
                    serial_number |-> certificate.serial_number,
                    message |-> "Certificate issued successfully"])]
    /\ logged' = Append(logged, CallId(t))
    /\ UNCHANGED <<certificates, cert_keys, signed, applied, oids, outside_conc>>

\* a caller enters revoke_certificate
ConcRevokeCall(t) ==
    /\ threads[t].pc = "idle"
    /\ threads[t].calls < MaxConcCalls
    /\ threads' = [threads EXCEPT ![t] =
          [@ EXCEPT !.pc = "revoke_check", !.op = "revoke_certificate",
                    !.cert_id = ConcCertId, !.reason = ConcReason[t], !.calls = @ + 1]]
    /\ UNCHANGED <<certificates, cert_keys, operation_log, signed, applied, logged, oids,
                   outside_conc>>

\* the membership test, cert_data = self.certificates[cert_id] and the status test
ConcRevokeCheck(t) ==
    /\ threads[t].pc = "revoke_check"
    /\ threads' = [threads EXCEPT ![t] =
          IF threads[t].cert_id \notin DOMAIN certificates
          THEN Returned(t, NotFound(threads[t].cert_id))
          ELSE IF AlreadyRevoked(certificates[threads[t].cert_id])
          THEN Returned(t, Fail("Certificate is already revoked"))
          ELSE [@ EXCEPT !.pc = "revoke_status", !.ref = oids[threads[t].cert_id]]]
    /\ UNCHANGED <<certificates, cert_keys, operation_log, signed, applied, logged, oids,
                   outside_conc>>

\* cert_data["status"] = "revoked"
ConcRevokeStatus(t) ==
    /\ threads[t].pc = "revoke_status"
    /\ WriteField(t, "status", "revoked", "revoke_at")
    /\ applied' = Append(applied, CallId(t))
    /\ UNCHANGED <<cert_keys, operation_log, signed, logged, oids, outside_conc>>

\* cert_data["revoked_at"] = datetime.utcnow().isoformat()
ConcRevokeAt(t) ==
    /\ threads[t].pc = "revoke_at"
    /\ WriteField(t, "revoked_at", IsoFormat(now, FALSE), "revoke_reason")
    /\ UNCHANGED <<cert_keys, operation_log, signed, applied, logged, oids, outside_conc>>

\* cert_data["revocation_reason"] = reason
ConcRevokeReason(t) ==
    /\ threads[t].pc = "revoke_reason"
    /\ WriteField(t, "revocation_reason", threads[t].reason, "revoke_log")
    /\ UNCHANGED <<cert_keys, operation_log, signed, applied, logged, oids, outside_conc>>

\* self._log_operation("revoke_certificate", ...)
ConcRevokeLog(t) ==
    /\ threads[t].pc = "revoke_log"
    /\ operation_log' = _log_operation(now, "revoke_certificate",
            [cert_id |-> threads[t].cert_id, reason |-> threads[t].reason])
    /\ logged' = Append(logged, CallId(t))
    /\ threads' = [threads EXCEPT ![t].pc = "revoke_return"]
    /\ UNCHANGED <<certificates, cert_keys, signed, applied, oids, outside_conc>>

\* the return of revoke_certificate, which reads cert_data["revoked_at"]
ConcRevokeReturn(t) ==
    /\ threads[t].pc = "revoke_return"
    /\ threads' = [threads EXCEPT ![t] = Returned(t,
            [success |-> TRUE, cert_id |-> threads[t].cert_id, status |-> "revoked",
             revoked_at |-> CertData(t)["revoked_at"], reason |-> threads[t].reason,
             message |-> "Certificate revoked successfully"])]
    /\ UNCHANGED <<certificates, cert_keys, operation_log, signed, applied, logged, oids,
                   outside_conc>>

\* a caller enters renew_certificate
ConcRenewCall(t) ==
    /\ threads[t].pc = "idle"
    /\ threads[t].calls < MaxConcCalls
    /\ threads' = [threads EXCEPT ![t] =
          [@ EXCEPT !.pc = "renew_read", !.op = "renew_certificate",
                    !.cert_id = ConcCertId, !.validity_days = ConcValidityDays,
                    !.calls = @ + 1]]
    /\ UNCHANGED <<certificates, cert_keys, operation_log, signed, applied, logged, oids,
                   outside_conc>>

\* the membership test, old_cert_data = self.certificates[cert_id], and the
\* renewed certificate built from it and signed
ConcRenewRead(t, serial) ==
    /\ threads[t].pc = "renew_read"
    /\ IF threads[t].cert_id \notin DOMAIN certificates
       THEN /\ threads' = [threads EXCEPT ![t] = Returned(t, NotFound(threads[t].cert_id))]
            /\ signed' = signed
       ELSE LET old_cert == certificates[threads[t].cert_id]["certificate"]
                renewed_cert == RenewedCertificate(old_cert, serial, now,
                                                   now + threads[t].validity_days)
            IN  /\ signed' = Append(signed, renewed_cert)
                /\ threads' = [threads EXCEPT ![t] =
                      [@ EXCEPT !.pc = "renew_store", !.ref = oids[threads[t].cert_id],
                                !.new_ref = Len(signed) + 1,
                                !.certificate = <<renewed_cert>>]]
    /\ UNCHANGED <<certificates, cert_keys, operation_log, applied, logged, oids,
                   outside_conc>>

\* self.certificates[new_cert_id] = {...}
ConcRenewStore(t) ==
    /\ threads[t].pc = "renew_store"
    /\ StoreObject(t, threads[t].cert_id \o "_renewed",
                   RenewedRecord(threads[t].certificate[1], now, threads[t].cert_id),
                   "renew_status")
    /\ applied' = Append(applied, CallId(t))
    /\ UNCHANGED <<operation_log, signed, logged, outside_conc>>

\* old_cert_data["status"] = "superseded"
ConcRenewStatus(t) ==
    /\ threads[t].pc = "renew_status"
    /\ WriteField(t, "status", "superseded", "renew_by")
    /\ UNCHANGED <<cert_keys, operation_log, signed, applied, logged, oids, outside_conc>>

\* old_cert_data["superseded_by"] = new_cert_id
ConcRenewBy(t) ==
    /\ threads[t].pc = "renew_by"
    /\ WriteField(t, "superseded_by", threads[t].cert_id \o "_renewed", "renew_log")
    /\ UNCHANGED <<cert_keys, operation_log, signed, applied, logged, oids, outside_conc>>

\* self._log_operation("renew_certificate", ...) and the return
ConcRenewLog(t) ==
    /\ threads[t].pc = "renew_log"
    /\ LET renewed_cert == threads[t].certificate[1]
           new_cert_id == threads[t].cert_id \o "_renewed"
       IN  /\ operation_log' = _log_operation(now, "renew_certificate",
                   [old_cert_id |-> threads[t].cert_id, new_cert_id |-> new_cert_id,
                    validity_days |-> threads[t].validity_days])
           /\ threads' = [threads EXCEPT ![t] = Returned(t,
                   [success |-> TRUE, old_cert_id |-> threads[t].cert_id,
                    new_cert_id |-> new_cert_id,
                    serial_number |-> renewed_cert.serial_number,
                    message |-> "Certificate renewed successfully"])]
    /\ logged' = Append(logged, CallId(t))
    /\ UNCHANGED <<certificates, cert_keys, signed, applied, oids, outside_conc>>

\* the clock while callers are in their calls
ConcTick ==
    /\ now < MaxTime
    /\ now' = now + 1
    /\ UNCHANGED <<certificates, cert_keys, operation_log, call, result, signed,
                   outside_pki>>

----------------------------------------------------------------------------
\* identifiers a renewal may be asked for: the derived identifier stays in CertIds
RenewableIds == { id \in CertIds : id \o "_renewed" \in CertIds } \cup {UnknownId}

Issue ==
    \E csr \in CSRs, cert_id \in CertIds, d \in ValidityDays, s \in Serials, t2 \in LaterReads :
        issue_certificate(csr, cert_id, d, s, t2)

Revoke ==
    \E cert_id \in CertIds \cup {UnknownId}, reason \in Reasons :
        revoke_certificate(cert_id, reason)

Renew ==
    \E cert_id \in RenewableIds, d \in ValidityDays, s \in Serials, t2 \in LaterReads :
        renew_certificate(cert_id, d, s, t2)

Get == \E cert_id \in CertIds \cup {UnknownId} : get_certificate(cert_id)

List == \E status \in StatusFilters : list_certificates(status)

CaIssue == \E csr \in CaRequests : ca_issue_certificate(csr)

Next == Tick \/ Issue \/ Revoke \/ Renew \/ Get \/ List \/ get_ca_certificate

Spec == Init /\ [][Next]_vars

ValidateKey ==
    \E r \in KeyRequests : validate_key_policy(r.algorithm, r.key_size, r.curve)

ValidateCert ==
    \E r \in CertRequests :
        validate_certificate_policy(r.validity_days, r.common_name, r.organization,
                                    r.country, r.key_usage, r.extended_key_usage)

NextPolicy == ValidateKey \/ ValidateCert \/ PolicyTick

SpecPolicy == Init /\ [][NextPolicy]_vars

MgrIssue ==
    \E r \in MgrRequests :
        mgr_issue_certificate(r.subject, r.algorithm, r.key_size, r.validity_days)

NextMgr == MgrIssue \/ MgrTick

SpecMgr == Init /\ [][NextMgr]_vars

ConcIssue ==
    \E t \in Threads :
        \/ \E serial \in ConcSerials : ConcIssueCall(t, serial)
        \/ ConcIssueStore(t)
        \/ ConcIssueLog(t)

ConcRevoke ==
    \E t \in Threads :
        \/ ConcRevokeCall(t)
        \/ ConcRevokeCheck(t)
        \/ ConcRevokeStatus(t)
        \/ ConcRevokeAt(t)
        \/ ConcRevokeReason(t)
        \/ ConcRevokeLog(t)
        \/ ConcRevokeReturn(t)

ConcRenew ==
    \E t \in Threads :
        \/ ConcRenewCall(t)
        \/ \E serial \in ConcSerials : ConcRenewRead(t, serial)
        \/ ConcRenewStore(t)
        \/ ConcRenewStatus(t)
        \/ ConcRenewBy(t)
        \/ ConcRenewLog(t)

NextConc == ConcIssue \/ ConcRevoke \/ ConcRenew \/ ConcTick

SpecConc == Init /\ [][NextConc]_vars

ReportValidateKey ==
    \E r \in ReportKeyRequests : validate_key_policy(r.algorithm, r.key_size, r.curve)

ReportValidateCert ==
    \E r \in ReportCertRequests :
        validate_certificate_policy(r.validity_days, r.common_name, r.organization,
                                    r.country, r.key_usage, r.extended_key_usage)

CheckExpiry == \E not_valid_after \in ExpiryInputs : check_certificate_expiry(not_valid_after)

GetPolicy == \E policy_category \in PolicyCategoryInputs : get_policy(policy_category)

ListViolations == \E limit \in ListLimits : list_violations(limit)

ComplianceReport == \E include_violations \in BOOLEAN : compliance_report(include_violations)

\* the registry next to the policy plugin: one certificate issued and revoked
ReportIssue == issue_certificate(ConcCsr, ConcCertId, ConcValidityDays, 1, now)

ReportRevoke == revoke_certificate(ConcCertId, "unspecified")

NextReport ==
    \/ ReportValidateKey \/ ReportValidateCert \/ CheckExpiry \/ GetPolicy
    \/ ListViolations \/ ComplianceReport \/ ReportIssue \/ ReportRevoke \/ PolicyTick

SpecReport == Init /\ [][NextReport]_vars

ExecuteToolRaises ==
    \E r \in RaisingRequests : execute_tool_raises(r.tool_name, r.parameters)

InitializeDemoCa == \E serial \in Serials : _initialize_demo_ca(serial)

\* tool calls that reach a PKI tool with well-formed parameters
DispatchIssue ==
    \E csr \in CSRs, serial \in Serials :
        issue_certificate(csr, ConcCertId, ConcValidityDays, serial, now)

DispatchRevoke == \E reason \in Reasons : revoke_certificate(ConcCertId, reason)

DispatchGet == \E cert_id \in {ConcCertId, UnknownId} : get_certificate(cert_id)

NextDispatch ==
    \/ ExecuteToolRaises \/ InitializeDemoCa \/ DispatchIssue \/ DispatchRevoke
    \/ DispatchGet \/ get_ca_certificate \/ Tick

SpecDispatch == Init /\ [][NextDispatch]_vars

\* the instants the second datetime.utcnow() of a handler may return when the
\* clock moves between the two reads
SkewedReads == now..MaxTime

SkewIssue ==
    \E csr \in CSRs, d \in ValidityDays, s \in Serials, t2 \in SkewedReads :
        issue_certificate(csr, ConcCertId, d, s, t2)

SkewRenew ==
    \E d \in ValidityDays, s \in Serials, t2 \in SkewedReads :
        renew_certificate(ConcCertId, d, s, t2)

NextSkew == SkewIssue \/ SkewRenew \/ Tick

SpecSkew == Init /\ [][NextSkew]_vars

FlowStart == \E request \in FlowRequests : FlowReceive(request)

NextFlow ==
    \/ FlowStart \/ FlowValidate \/ FlowGenerateKey \/ FlowLogKey \/ FlowIssueCert
    \/ FlowLogCert \/ FlowStoreCertificate \/ FlowLogInventory

SpecFlow == Init /\ [][NextFlow]_vars

MgrConcIssue ==
    \E t \in Threads :
        \/ \E r \in MgrConcRequests : MgrConcCall(t, r)
        \/ MgrConcCertId(t)
        \/ MgrConcSerial(t)
        \/ MgrConcAppend(t)
        \/ MgrConcLog(t)

NextMgrConc == MgrConcIssue

SpecMgrConc == Init /\ [][NextMgrConc]_vars

Chat ==
    \/ \E user_message \in UserMessages : ChatCall(user_message)
    \/ \E response \in ChatResponses : ChatInvoke(response)
    \/ ChatExecuteTool
    \/ ChatToolResult
    \/ ChatAppendToolTurns
    \/ \E response \in FinalResponses : ChatFinal(response)

NextChat == Chat

SpecChat == Init /\ [][NextChat]_vars

GenerateKeyPair ==
    \E r \in GenerateRequests, key_id \in KeyIds :
        generate_key_pair(r.algorithm, key_id, r.key_size, r.curve)

CreateCsr == \E key_id \in KeyIds : crypto_create_csr(key_id, "api.example.com")

GetKeyInfo == \E key_id \in KeyIds : get_key_info(key_id)

NextCrypto == GenerateKeyPair \/ CreateCsr \/ GetKeyInfo

SpecCrypto == Init /\ [][NextCrypto]_vars

NextCa == CaIssue

SpecCa == Init /\ [][NextCa]_vars
----------------------------------------------------------------------------
(* Properties *)

Has(d, k, v) == k \in DOMAIN d /\ d[k] = v

Status(certs, id) == certs[id]["status"]

\* a step taken by a call of the named mutation
IssueStep == call'.op = "issue_certificate" /\ Issue
RevokeStep == call'.op = "revoke_certificate" /\ Revoke
RenewStep == call'.op = "renew_certificate" /\ Renew
ListStep == call'.op = "list_certificates" /\ List

\* C1: once the status stored under an identifier is 'revoked', no later issue,
\* revoke or renew makes the status stored under it anything else.
RevokedIsTerminal ==
    [][ \A id \in DOMAIN certificates :
            Status(certificates, id) = "revoked"
            => (id \in DOMAIN certificates' /\ Status(certificates', id) = "revoked") ]_vars

\* number of revoke_certificate entries of a log that name cert_id
RevokeEntries(entries, cert_id) ==
    Cardinality({ i \in DOMAIN entries : /\ entries[i].operation = "revoke_certificate"
                                         /\ entries[i].details.cert_id = cert_id })

\* C2: revoke_certificate on a record that is already 'revoked' returns the
\* already-revoked failure and changes neither the registry nor the log; the
\* log gains a revoke_certificate entry for an identifier only in a step that
\* takes its record from a non-revoked status to 'revoked', one entry per step.
RevokeRejectsRevoked ==
    [][ /\ ( /\ RevokeStep
             /\ call'.cert_id \in DOMAIN certificates
             /\ Status(certificates, call'.cert_id) = "revoked" )
           => /\ result' = Fail("Certificate is already revoked")
              /\ certificates' = certificates
              /\ cert_keys' = cert_keys
              /\ operation_log' = operation_log
        /\ \A id \in CertIds :
             ( /\ operation_log' # operation_log
               /\ RevokeEntries(operation_log', id) # RevokeEntries(operation_log, id) )
             => /\ RevokeEntries(operation_log', id) = RevokeEntries(operation_log, id) + 1
                /\ id \in DOMAIN certificates
                /\ Status(certificates, id) # "revoked"
                /\ Status(certificates', id) = "revoked" ]_vars

\* C2 witness: a second revocation of a revoked record has just been rejected
RevokeRejectedReached ==
    /\ call.op = "revoke_certificate"
    /\ result = Fail("Certificate is already revoked")
    /\ call.cert_id \in DOMAIN certificates
    /\ Status(certificates, call.cert_id) = "revoked"
    /\ RevokeEntries(operation_log, call.cert_id) = 1

NoDuplicates(seq, f(_)) ==
    \A i, j \in DOMAIN seq : i # j => f(seq[i]) # f(seq[j])

PluginSerial(c) == c.serial_number
CaToolSerial(c) == c.serial

\* C3: no two certificates ever produced by issuance or renewal under one
\* authority share a serial number.
SerialNumbersUnique ==
    /\ NoDuplicates(signed, PluginSerial)
    /\ NoDuplicates(ca_issued, CaToolSerial)

\* C4: issue_certificate with a cert_id already in the registry fails and
\* leaves the record stored under it unchanged.
IssueRejectsExistingId ==
    [][ (IssueStep /\ call'.cert_id \in DOMAIN certificates)
        => /\ ~result'.success
           /\ certificates'[call'.cert_id] = certificates[call'.cert_id] ]_vars

\* C5: renew_certificate(id) fails when id + '_renewed' is already in the
\* registry, and leaves the record stored under the derived identifier unchanged.
RenewRejectsExistingId ==
    [][ ( /\ RenewStep
          /\ call'.cert_id \in DOMAIN certificates
          /\ call'.cert_id \o "_renewed" \in DOMAIN certificates )
        => /\ ~result'.success
           /\ certificates'[call'.cert_id \o "_renewed"]
                = certificates[call'.cert_id \o "_renewed"] ]_vars

\* C6: every certificate ever stored (identified by its serial number) is
\* still held by some record of the registry.
NeverDeleted ==
    \A i \in DOMAIN signed :
        \E id \in DOMAIN certificates :
            certificates[id]["certificate"].serial_number = signed[i].serial_number

\* C7: right after a successful renew_certificate(id, d) the old record is
\* 'superseded' with superseded_by the new identifier, the new record is
\* 'active' with renewed_from = id, and the new record's subject and public
\* key are those the old record had.
RenewalInvariant ==
    [][ (RenewStep /\ result'.success)
        => LET id == call'.cert_id
               new == result'.new_cert_id
           IN  /\ new = id \o "_renewed"
               /\ id \in DOMAIN certificates
               /\ {id, new} \subseteq DOMAIN certificates'
               /\ Has(certificates'[id], "status", "superseded")
               /\ Has(certificates'[id], "superseded_by", new)
               /\ Has(certificates'[new], "status", "active")
               /\ Has(certificates'[new], "renewed_from", id)
               /\ certificates'[new]["certificate"].subject
                    = certificates[id]["certificate"].subject
               /\ certificates'[new]["certificate"].public_key
                    = certificates[id]["certificate"].public_key
               /\ certificates'[new]["subject"] = certificates[id]["subject"] ]_vars

\* C7 witness: a renewal has just replaced a record of another subject that
\* was stored under the derived identifier
RenewedReached ==
    /\ call.op = "renew_certificate"
    /\ result.success
    /\ Has(certificates[call.cert_id], "superseded_by", result.new_cert_id)
    /\ \E i \in DOMAIN signed :
          signed[i].subject # certificates[result.new_cert_id]["subject"]

\* C8: the stored status of every record is 'active', 'revoked' or 'superseded'.
ExpiredNeverStored ==
    \A id \in DOMAIN certificates :
        Status(certificates, id) \in {"active", "revoked", "superseded"}

PastNotAfter(cert_data, t) == cert_data["certificate"].not_valid_after < t

\* C8 witness: an 'expired' listing has been served while an active record is
\* past its not_after
ExpiredActiveReached ==
    /\ call.op = "list_certificates"
    /\ call.status = "expired"
    /\ \E id \in DOMAIN certificates :
          Status(certificates, id) = "active" /\ PastNotAfter(certificates[id], now)

ListedIds(res) == { res.certificates[i].cert_id : i \in DOMAIN res.certificates }

\* C9: list_certificates('expired') returns exactly the records whose stored
\* status is 'active' and whose not_after is earlier than the time of the call.
ListExpiredIsDerived ==
    [][ (ListStep /\ call'.status = "expired")
        => ListedIds(result') =
             { id \in DOMAIN certificates :
                 Status(certificates, id) = "active" /\ PastNotAfter(certificates[id], now) } ]_vars

\* the log entry a successful mutation is to append
NamesCall(entry, c, res) ==
    /\ entry.operation = c.op
    /\ IF c.op = "renew_certificate"
       THEN /\ entry.details.old_cert_id = c.cert_id
            /\ entry.details.new_cert_id = res.new_cert_id
       ELSE entry.details.cert_id = c.cert_id

\* C10: a successful issue_certificate, revoke_certificate or renew_certificate
\* appends exactly one log entry naming the operation and its identifier(s);
\* a failed mutation, a read and the passing of time append none.
OneEntryPerMutation ==
    [][ IF (IssueStep \/ RevokeStep \/ RenewStep) /\ result'.success
        THEN /\ Len(operation_log') = Len(operation_log) + 1
             /\ SubSeq(operation_log', 1, Len(operation_log)) = operation_log
             /\ NamesCall(operation_log'[Len(operation_log')], call', result')
        ELSE operation_log' = operation_log ]_vars

\* C10 witness: a mutation has failed after two successful ones, the log
\* holding the successful ones only
FailedAfterLoggedReached ==
    /\ call.op \in {"issue_certificate", "revoke_certificate", "renew_certificate"}
    /\ ~result.success
    /\ Len(operation_log) = 2
    /\ operation_log[1].operation = "issue_certificate"
    /\ operation_log[2].operation = "renew_certificate"

----------------------------------------------------------------------------
(* Properties of the audit log, of issuance and of the tool surface *)

IsPrefix(s, t) == Len(s) <= Len(t) /\ SubSeq(t, 1, Len(s)) = s

Last(s) == s[Len(s)]

\* C11: across every step the previous operation log is a prefix of the new
\* one, and a step that changes the registry appends, in that same step, the
\* one entry that names it: the entries stand in the order of the mutations.
LogAppendOnlyOrdered ==
    [][ /\ IsPrefix(operation_log, operation_log')
        /\ certificates' # certificates
           => /\ Len(operation_log') = Len(operation_log) + 1
              /\ NamesCall(Last(operation_log'), call', result') ]_vars

\* C11 witness: three mutations have been logged in the order they were applied
LogOrderedReached ==
    /\ Len(operation_log) = 3
    /\ operation_log[1].operation = "issue_certificate"
    /\ operation_log[2].operation = "revoke_certificate"
    /\ operation_log[3].operation = "renew_certificate"
    /\ operation_log[3].details.old_cert_id = operation_log[1].details.cert_id
    /\ Status(certificates, operation_log[1].details.cert_id) = "superseded"

\* C14: an issue_certificate that returns success=false leaves the registry
\* and the operation log as they were, and a record becomes visible under
\* cert_id only in a call that returns success=true.
IssueAllOrNothing ==
    [][ IssueStep
        => /\ ~result'.success
              => /\ certificates' = certificates
                 /\ cert_keys' = cert_keys
                 /\ operation_log' = operation_log
           /\ (call'.cert_id \notin DOMAIN certificates
               /\ call'.cert_id \in DOMAIN certificates')
              => result'.success ]_vars

\* C14 witness: an issuance under a fresh identifier has failed while the
\* registry and the log were not empty
IssueFailedReached ==
    /\ call.op = "issue_certificate"
    /\ ~result.success
    /\ call.cert_id \notin DOMAIN certificates
    /\ DOMAIN certificates # {}
    /\ Len(operation_log) >= 1

\* validity_days within the bounds of the certificate policy
ValidityCompliant(d) ==
    /\ d >= policies.certificate.min_validity_days
    /\ d <= policies.certificate.max_validity_days

\* C15: issue_certificate and renew_certificate, called through the tool
\* surface, store a record only for a validity_days within the policy bounds.
PolicyGated ==
    [][ ((IssueStep \/ RenewStep) /\ certificates' # certificates)
        => ValidityCompliant(Last(operation_log').details.validity_days) ]_vars

----------------------------------------------------------------------------
(* properties of PolicyMCPPlugin, checked under SpecPolicy *)

ValidateKeyStep == call'.op = "validate_key_policy" /\ ValidateKey
ValidateCertStep == call'.op = "validate_certificate_policy" /\ ValidateCert

\* the call named only validity_days
OnlyValidityDays(c) ==
    /\ IsNone(c.common_name) /\ IsNone(c.organization) /\ IsNone(c.country)
    /\ IsNone(c.key_usage) /\ IsNone(c.extended_key_usage)

\* the call named validity_days and a non-empty organization, nothing else
ValidityDaysAndOrganization(c) ==
    /\ IsNone(c.common_name) /\ Truthy(c.organization) /\ IsNone(c.country)
    /\ IsNone(c.key_usage) /\ IsNone(c.extended_key_usage)

OutsideValidityBounds(d) ==
    d < policies.certificate.min_validity_days \/ d > policies.certificate.max_validity_days

\* C17 as stated: an evaluation given only validity_days = d is non-compliant
\* exactly when d is below the minimum or above the maximum validity.
ValidityOnlyRoundTrip ==
    [][ (ValidateCertStep /\ OnlyValidityDays(call'))
        => (~result'.compliant <=> OutsideValidityBounds(call'.validity_days)) ]_vars

\* C17: an evaluation given validity_days = d and a non-empty organization, all
\* other arguments omitted, is non-compliant exactly when d is below the minimum
\* or above the maximum validity.
ValidityRoundTrip ==
    [][ (ValidateCertStep /\ ValidityDaysAndOrganization(call'))
        => (~result'.compliant <=> OutsideValidityBounds(call'.validity_days)) ]_vars

\* the maximum validity itself was evaluated with an organization and found compliant
MaxValidityCompliantReached ==
    /\ call.op = "validate_certificate_policy"
    /\ ValidityDaysAndOrganization(call)
    /\ call.validity_days = policies.certificate.max_validity_days
    /\ result.compliant

KeyPolicySatisfied(c) ==
    LET key_policy == policies.key_generation
    IN  /\ InSeq(c.algorithm, key_policy.allowed_algorithms)
        /\ c.algorithm = "RSA" =>
              \/ IsNone(c.key_size)
              \/ /\ Val(c.key_size) >= key_policy.rsa_min_key_size
                 /\ InSeq(Val(c.key_size), key_policy.rsa_allowed_sizes)
        /\ c.algorithm = "ECC" =>
              \/ IsNone(c.curve)
              \/ InSeq(Val(c.curve), key_policy.ecc_allowed_curves)

\* the parameter the algorithm needs was left out
ParameterOmitted(c) ==
    \/ c.algorithm = "RSA" /\ IsNone(c.key_size)
    \/ c.algorithm = "ECC" /\ IsNone(c.curve)

\* C18: validate_key_policy is compliant exactly when the algorithm is allowed,
\* an RSA key_size is omitted or at least the minimum and an allowed size, and an
\* ECC curve is omitted or allowed; an RSA call without key_size and an ECC call
\* without curve give exactly one warning and no violation, and the result holds
\* no key_size or curve filled in by the engine.
KeyPolicyVerdict ==
    [][ ValidateKeyStep =>
          /\ result'.compliant <=> KeyPolicySatisfied(call')
          /\ ParameterOmitted(call') =>
                /\ Len(result'.warnings) = 1
                /\ result'.violations = << >>
                /\ result'.compliant
                /\ violations' = violations
          /\ ~ParameterOmitted(call') => result'.warnings = << >>
          /\ DOMAIN result' = {"success", "compliant", "violations", "warnings", "message"}
          /\ violations' # violations =>
                /\ Last(violations').details.key_size = call'.key_size
                /\ Last(violations').details.curve = call'.curve ]_vars

\* an RSA evaluation without key_size came back compliant with its one warning
OmittedKeySizeReached ==
    /\ call.op = "validate_key_policy"
    /\ call.algorithm = "RSA" /\ IsNone(call.key_size)
    /\ result.compliant /\ Len(result.warnings) = 1

\* an RSA evaluation of the minimum key size came back compliant, one below it did not
MinKeySizeReached ==
    /\ call.op = "validate_key_policy"
    /\ call.algorithm = "RSA"
    /\ call.key_size = Some(policies.key_generation.rsa_min_key_size)
    /\ result.compliant
    /\ Len(violations) = 1
    /\ violations[1].details.algorithm = "RSA"

ViolationType(c) ==
    IF c.op = "validate_key_policy" THEN "key_generation" ELSE "certificate"

\* C19: a non-compliant evaluation appends exactly one violation record whose
\* details hold the list returned to the caller, a compliant one appends none, and
\* an evaluation repeated with the same arguments returns the same compliant,
\* violations and warnings and, when non-compliant, appends one more record.
ViolationRecording ==
    [][ (ValidateKeyStep \/ ValidateCertStep) =>
          /\ ~result'.compliant =>
                /\ Len(violations') = Len(violations) + 1
                /\ SubSeq(violations', 1, Len(violations)) = violations
                /\ Last(violations').type = ViolationType(call')
                /\ Last(violations').details.violations = result'.violations
                /\ result'.violations # << >>
          /\ result'.compliant =>
                /\ violations' = violations
                /\ result'.violations = << >>
          /\ call' = call =>
                /\ result'.compliant = result.compliant
                /\ result'.violations = result.violations
                /\ result'.warnings = result.warnings ]_vars

\* the same non-compliant evaluation ran twice and left two records
RepeatedViolationReached ==
    /\ call.op \in {"validate_key_policy", "validate_certificate_policy"}
    /\ ~result.compliant
    /\ Len(violations) = 2
    /\ violations[1].type = violations[2].type
    /\ violations[1].details = violations[2].details
    /\ violations[2].details.violations = result.violations

StartsWith(s, prefix) == Len(s) >= Len(prefix) /\ SubSeq(s, 1, Len(prefix)) = prefix

\* the values of a request outside an allowed list, kept in request order
Disallowed(values, allowed) ==
    LET idx == {i \in DOMAIN values : ~InSeq(values[i], allowed)}
        Nth[k \in 0..Cardinality(idx)] ==
            IF k = 0 THEN 0
            ELSE CHOOSE i \in idx : i > Nth[k - 1] /\ \A j \in idx : j > Nth[k - 1] => i <= j
    IN  [k \in 1..Cardinality(idx) |-> values[Nth[k]]]

CountWithPrefix(seq, prefix) == Cardinality({i \in DOMAIN seq : StartsWith(seq[i], prefix)})

\* C20: given key_usage (resp. extended_key_usage) values, the evaluation emits a
\* key-usage violation exactly when some value is outside the allowed list, and
\* that one violation lists every disallowed value in request order.
KeyUsageReportingComplete ==
    [][ ValidateCertStep =>
          /\ ~IsNone(call'.key_usage) =>
                LET bad == Disallowed(Val(call'.key_usage),
                                      policies.certificate.allowed_key_usages)
                    n == CountWithPrefix(result'.violations, "Invalid key usages: ")
                IN  /\ n = (IF bad # << >> THEN 1 ELSE 0)
                    /\ bad # << >> =>
                          InSeq(InvalidKeyUsagesMessage(bad), result'.violations)
          /\ ~IsNone(call'.extended_key_usage) =>
                LET bad == Disallowed(Val(call'.extended_key_usage),
                                      policies.certificate.allowed_extended_key_usages)
                    n == CountWithPrefix(result'.violations,
                                         "Invalid extended key usages: ")
                IN  /\ n = (IF bad # << >> THEN 1 ELSE 0)
                    /\ bad # << >> =>
                          InSeq(InvalidExtendedKeyUsagesMessage(bad), result'.violations) ]_vars

\* a request with two disallowed key usages around an allowed one got one
\* violation naming both, in request order
TwoOffendersReached ==
    /\ call.op = "validate_certificate_policy"
    /\ call.key_usage = Some(<<"nonRepudiation", "digitalSignature", "encipherOnly">>)
    /\ CountWithPrefix(result.violations, "Invalid key usages: ") = 1
    /\ \E i \in DOMAIN result.violations :
          StartsWith(result.violations[i],
                     "Invalid key usages: ['nonRepudiation', 'encipherOnly']. Allowed: ")


----------------------------------------------------------------------------
(* properties of SimplePKIManager, checked under SpecMgr *)

MgrIssueStep == call'.op = "SimplePKIManager.issue_certificate" /\ MgrIssue

Contains(s, sub) ==
    \E i \in 1..(Len(s) - Len(sub) + 1) : SubSeq(s, i, i + Len(sub) - 1) = sub

\* the audit events a step added
NewAuditEvents == {mgr_audit_log'[i] : i \in (Len(mgr_audit_log) + 1)..Len(mgr_audit_log')}

\* C16: under the manager's policy an RSA request with a key size below 3072
\* returns success = false with an error containing "below minimum 3072", leaves
\* the certificate list as it was and logs no CERTIFICATE_ISSUED event.
WeakRsaKeyRejected ==
    [][ (MgrIssueStep /\ call'.algorithm = "RSA" /\ call'.key_size < 3072) =>
          /\ result'.success = FALSE
          /\ Contains(result'.error, "below minimum 3072")
          /\ mgr_certificates' = mgr_certificates
          /\ SubSeq(mgr_audit_log', 1, Len(mgr_audit_log)) = mgr_audit_log
          /\ \A e \in NewAuditEvents : e.event_type # "CERTIFICATE_ISSUED" ]_vars

\* after a certificate was issued, an RSA request one below the minimum was refused
WeakRsaKeyRejectedReached ==
    /\ call.op = "SimplePKIManager.issue_certificate"
    /\ call.algorithm = "RSA" /\ call.key_size = 3071
    /\ ~result.success
    /\ result.error = "Policy violation: Key size 3071 below minimum 3072"
    /\ Len(mgr_certificates) = 1
    /\ Last(mgr_audit_log).event_type = "POLICY_CHECK"


----------------------------------------------------------------------------
(* properties of PKIMCPPlugin under concurrent callers, checked under SpecConc *)

\* no caller is inside a call
Quiescent == \A t \in Threads : threads[t].pc = "idle"

\* C12: when the concurrent callers have all returned, the operation log holds
\* one entry for each mutation applied, and the entries stand in the order in
\* which the mutations were applied to the registry.
AuditOrderUnderConcurrency ==
    Quiescent => /\ Len(operation_log) = Len(applied)
                 /\ logged = applied

LogEntriesOf(operation, cert_id) ==
    {i \in DOMAIN operation_log :
        /\ operation_log[i].operation = operation
        /\ operation_log[i].details.cert_id = cert_id}

\* the callers whose last call was a successful revocation of cert_id
SuccessfulRevokers(cert_id) ==
    {t \in Threads :
        /\ threads[t].pc = "idle"
        /\ threads[t].op = "revoke_certificate"
        /\ threads[t].cert_id = cert_id
        /\ threads[t].result.success}

\* C13: a certificate issued once is revoked by at most one of the callers that
\* ask for it: when all have returned there is one revoke_certificate entry for
\* it at most, one successful revoker at most, and the record carries that
\* caller's reason and revocation time.
RevokeMutuallyExclusive ==
    (Quiescent /\ Cardinality(LogEntriesOf("issue_certificate", ConcCertId)) = 1)
    => /\ Cardinality(LogEntriesOf("revoke_certificate", ConcCertId)) <= 1
       /\ Cardinality(SuccessfulRevokers(ConcCertId)) <= 1
       /\ \A t \in SuccessfulRevokers(ConcCertId) :
             /\ certificates[ConcCertId]["revocation_reason"] = threads[t].reason
             /\ certificates[ConcCertId]["revoked_at"] = threads[t].result.revoked_at


----------------------------------------------------------------------------
(* properties of the policy plugin's reports, checked under SpecReport *)

ExpiryStep == call'.op = "check_certificate_expiry" /\ CheckExpiry
ListViolationsStep == call'.op = "list_violations" /\ ListViolations
ReportStep == call'.op = "compliance_report" /\ ComplianceReport

\* C21: check_certificate_expiry, whatever timestamp or other text it is given,
\* leaves the violation log, the certificate registry with every stored status
\* and the operation log as they were; the policy configuration is fixed at
\* construction and no operation assigns it.
ExpiryHasNoSideEffects ==
    [][ ExpiryStep => /\ violations' = violations
                      /\ certificates' = certificates
                      /\ operation_log' = operation_log ]_vars

\* an unreadable timestamp was checked while a violation was on record and a
\* revoked certificate in the registry
ExpiryCheckedReached ==
    /\ call.op = "check_certificate_expiry"
    /\ call.not_valid_after.tz = "not a date"
    /\ ~result.success
    /\ Len(violations) = 1
    /\ ConcCertId \in DOMAIN certificates
    /\ certificates[ConcCertId]["status"] = "revoked"

\* the first check recorded asked about the timestamp of the present call
SameTimestampAgain ==
    /\ expiry_seen # << >>
    /\ expiry_seen[1].not_valid_after = call'.not_valid_after

IsSuffix(s, t) == Len(s) <= Len(t) /\ SubSeq(t, Len(t) - Len(s) + 1, Len(t)) = s

\* C29: list_violations(limit) returns at most limit entries (none for a limit
\* of zero or less), they are the most recent ones in append order, and
\* total_violations is the length of the whole log.
ListViolationsBounded ==
    [][ ListViolationsStep =>
          /\ Len(result'.violations) <= (IF call'.limit > 0 THEN call'.limit ELSE 0)
          /\ IsSuffix(result'.violations, violations)
          /\ result'.total_violations = Len(violations) ]_vars

RECURSIVE SumOver(_, _)
SumOver(f, keys) ==
    IF keys = {} THEN 0
    ELSE LET k == CHOOSE x \in keys : TRUE IN f[k] + SumOver(f, keys \ {k})

\* C30: every step keeps the violation log as a prefix of the new one, and
\* compliance_report reports COMPLIANT exactly when the log is empty, that is
\* when no evaluation was ever found non-compliant, with total_violations the
\* length of the log and the counts by type adding up to it.
ViolationLogAppendOnly ==
    [][ /\ IsPrefix(violations, violations')
        /\ ReportStep =>
              /\ result'.compliance_status \in {"COMPLIANT", "NON-COMPLIANT"}
              /\ result'.compliance_status = "COMPLIANT" <=> violations = << >>
              /\ result'.total_violations = Len(violations)
              /\ SumOver(result'.violations_by_type, DOMAIN result'.violations_by_type)
                    = result'.total_violations ]_vars

\* a report was made after a key evaluation and a certificate evaluation had
\* each been recorded
NonCompliantReportReached ==
    /\ call.op = "compliance_report"
    /\ result.compliance_status = "NON-COMPLIANT"
    /\ result.total_violations = 2
    /\ DOMAIN result.violations_by_type = {"key_generation", "certificate"}


----------------------------------------------------------------------------
(* properties of the tool dispatcher, checked under SpecDispatch *)

\* C23: every call through execute_tool ends in a returned dict that carries
\* success; none ends in an exception raised to the caller.
NoOperationRaises == "success" \in DOMAIN result

\* every certificate in the registry names the present authority as issuer and
\* was signed with its key
RegistryUnderCa ==
    \A cert_id \in DOMAIN certificates :
        /\ certificates[cert_id]["certificate"].issuer = ca_cert.subject
        /\ certificates[cert_id]["certificate"].signed_with = ca_key
        /\ ca_cert.public_key = ca_key

\* C26: no step replaces the authority key or certificate set up at
\* construction, and every certificate in the registry names that authority
\* as issuer and is signed with its key.
CaCreatedOnce == [][ca_key' = ca_key /\ ca_cert' = ca_cert]_vars /\ []RegistryUnderCa


----------------------------------------------------------------------------
(* the validity window when the clock moves inside a handler, under SpecSkew *)

SignedStep ==
    /\ call'.op \in {"issue_certificate", "renew_certificate"}
    /\ result'.success
    /\ Len(signed') = Len(signed) + 1

\* C24: a certificate issued or renewed with validity_days = d has
\* not_after - not_before equal to exactly d days, whatever the clock does
\* while the operation runs.
ValidityWindowExact ==
    [][SignedStep =>
        LET certificate == signed'[Len(signed')]
            entry == operation_log'[Len(operation_log')]
        IN  certificate.not_valid_after - certificate.not_valid_before
                = entry.details.validity_days]_vars


----------------------------------------------------------------------------
(* the validity window of the records SimplePKIManager stores, under SpecMgr *)

\* C25: every certificate stored in the registry has not_before <= not_after;
\* a request with zero or negative validity_days is rejected, never stored.
ValidityWindowOrdered ==
    \A i \in 1..Len(mgr_certificates) :
        mgr_certificates[i].not_before.iso <= mgr_certificates[i].not_after.iso


----------------------------------------------------------------------------
(* the frame of renewal and the rejection of unknown identifiers, under Spec *)

RenewedStep == call'.op = "renew_certificate" /\ result'.success

\* C27: a successful renew_certificate(id) changes nothing in the registry but
\* the old record's status and superseded_by, and inserts one new record; the
\* old record's other fields and every other record are unchanged.
RenewalFrame ==
    [][RenewedStep =>
        LET old_cert_id == result'.old_cert_id
            new_cert_id == result'.new_cert_id
        IN  /\ new_cert_id \notin DOMAIN certificates
            /\ DOMAIN certificates' = DOMAIN certificates \cup {new_cert_id}
            /\ \A cert_id \in DOMAIN certificates \ {old_cert_id} :
                   certificates'[cert_id] = certificates[cert_id]
            /\ DOMAIN certificates'[old_cert_id]
                   \subseteq DOMAIN certificates[old_cert_id] \cup {"superseded_by"}
            /\ \A field \in DOMAIN certificates[old_cert_id] \ {"status", "superseded_by"} :
                   certificates'[old_cert_id][field] = certificates[old_cert_id][field]]_vars

UnknownIdStep ==
    /\ call'.op \in {"get_certificate", "revoke_certificate", "renew_certificate"}
    /\ call'.cert_id \notin DOMAIN certificates

\* C28: get_certificate, revoke_certificate and renew_certificate called with
\* an identifier that is not in the registry return success = false with a
\* not-found error naming the identifier, add no record (no "<id>_renewed"
\* record either) and leave the registry and the operation log unchanged.
UnknownIdRejected ==
    [][UnknownIdStep =>
        /\ result' = [success |-> FALSE,
                      error |-> "Certificate '" \o call'.cert_id \o "' not found"]
        /\ certificates' = certificates
        /\ cert_keys' = cert_keys
        /\ (call'.cert_id \o "_renewed" \in DOMAIN certificates'
               => call'.cert_id \o "_renewed" \in DOMAIN certificates)
        /\ operation_log' = operation_log]_vars

\* a renewal of an unknown identifier was rejected while the registry holds a
\* certificate and the log an entry
UnknownRenewalReached ==
    /\ call.op = "renew_certificate"
    /\ call.cert_id = UnknownId
    /\ UnknownId \notin DOMAIN certificates
    /\ ~result.success
    /\ DOMAIN certificates # {}
    /\ Len(operation_log) > 0


----------------------------------------------------------------------------
(* the rule set of validate_certificate_policy, checked under SpecPolicy *)

NotSupplied(x) == x = << >> \/ x = <<"">>

SomeOutside(x, allowed) ==
    /\ x # << >>
    /\ \E i \in DOMAIN x[1] : \A j \in DOMAIN allowed : x[1][i] # allowed[j]

\* the rules of the certificate policy a request c breaches, each on its own
BreachedRules(c) ==
    { rule \in {"max_validity", "min_validity", "organization", "country",
                "common_name", "allowed_countries", "key_usage", "extended_key_usage"} :
        CASE rule = "max_validity" ->
                c.validity_days > policies.certificate.max_validity_days
          [] rule = "min_validity" ->
                c.validity_days < policies.certificate.min_validity_days
          [] rule = "organization" ->
                policies.naming.require_organization /\ NotSupplied(c.organization)
          [] rule = "country" ->
                policies.naming.require_country /\ NotSupplied(c.country)
          [] rule = "common_name" ->
                /\ c.common_name # << >>
                /\ Len(c.common_name[1]) > policies.naming.max_common_name_length
          [] rule = "allowed_countries" ->
                /\ policies.naming.allowed_countries # << >>
                /\ ~NotSupplied(c.country)
                /\ SomeOutside(c.country, policies.naming.allowed_countries[1])
          [] rule = "key_usage" ->
                SomeOutside(c.key_usage, policies.certificate.allowed_key_usages)
          [] rule = "extended_key_usage" ->
                SomeOutside(c.extended_key_usage,
                            policies.certificate.allowed_extended_key_usages) }

\* C31: validate_certificate_policy returns as many violations as the request
\* breaches rules (validity above the maximum, below the minimum, required
\* organization or country not supplied, common name too long, country outside
\* an allow-list, a disallowed key usage, a disallowed extended key usage), each
\* rule checked on its own, and compliant is true exactly when there are none.
CertificateRuleSet ==
    [][ValidateCertStep =>
          /\ Len(result'.violations) = Cardinality(BreachedRules(call'))
          /\ result'.compliant <=> BreachedRules(call') = {}]_vars

\* one evaluation breached three rules at once and got three violations
ThreeRulesBreachedReached ==
    /\ call.op = "validate_certificate_policy"
    /\ BreachedRules(call) = {"organization", "key_usage", "extended_key_usage"}
    /\ Len(result.violations) = 3
    /\ ~result.compliant


----------------------------------------------------------------------------
(* the sequencing of run_certificate_flow, checked under SpecFlow *)

\* the event an audit entry may directly follow within one flow
FlowPredecessor(event) ==
    CASE event = "POLICY_APPROVED" -> "REQUEST_RECEIVED"
      [] event = "POLICY_REJECTED" -> "REQUEST_RECEIVED"
      [] event = "KEY_CREATED" -> "POLICY_APPROVED"
      [] event = "CERT_ISSUED" -> "KEY_CREATED"
      [] event = "INVENTORY_UPDATED" -> "CERT_ISSUED"
      [] OTHER -> "none"

EventCount(event) == Cardinality({i \in DOMAIN flow_audit : flow_audit[i].event = event})

\* C32: the events of a flow come in the order REQUEST_RECEIVED,
\* POLICY_APPROVED, KEY_CREATED, CERT_ISSUED, INVENTORY_UPDATED; a rejected
\* flow logs only REQUEST_RECEIVED and POLICY_REJECTED and creates no key,
\* issues no certificate and stores nothing; the inventory is updated only
\* after approval and issuance.
FlowSequencing ==
    /\ \A i \in DOMAIN flow_audit :
          \/ flow_audit[i].event = "REQUEST_RECEIVED"
          \/ i > 1 /\ flow_audit[i - 1].event = FlowPredecessor(flow_audit[i].event)
    /\ flow_audit # << >> => flow_audit[1].event = "REQUEST_RECEIVED"
    /\ Len(flow_keys) <= EventCount("POLICY_APPROVED")
    /\ Len(ca_issued) <= EventCount("KEY_CREATED")
    /\ Len(flow_inventory) <= EventCount("CERT_ISSUED")
    /\ EventCount("INVENTORY_UPDATED") <= Len(flow_inventory)
    /\ flow_audit # << >> /\ flow_audit[Len(flow_audit)].event = "POLICY_REJECTED"
          => flow.pc = "idle"

\* a rejected flow was followed by a flow that ran to the inventory update
RejectedThenStoredReached ==
    /\ Len(flow_audit) = 7
    /\ flow_audit[2].event = "POLICY_REJECTED"
    /\ flow_audit[7].event = "INVENTORY_UPDATED"
    /\ Len(flow_keys) = 1
    /\ Len(flow_inventory) = 1
    /\ flow.pc = "idle"


----------------------------------------------------------------------------
(* the thresholds of check_certificate_expiry, checked under SpecReport *)

\* C33: for a parsable timestamp, with n the whole days from the clock to
\* not_valid_after, check_certificate_expiry returns status expired iff n < 0,
\* expiring_soon iff 0 <= n <= renewal_warning_days and valid otherwise, and
\* needs_renewal is true exactly when the status is expiring_soon.
ExpiryThresholds ==
    [][(ExpiryStep /\ FromIsoFormat(ReplaceZ(call'.not_valid_after)).ok) =>
        LET n == call'.not_valid_after.iso - now
        IN  /\ result'.success
            /\ result'.status = "expired" <=> n < 0
            /\ result'.status = "expiring_soon"
                  <=> (0 <= n /\ n <= policies.lifecycle.renewal_warning_days)
            /\ result'.status = "valid" <=> n > policies.lifecycle.renewal_warning_days
            /\ result'.needs_renewal <=> result'.status = "expiring_soon"]_vars


----------------------------------------------------------------------------
(* the supersession links of the registry, checked under Spec *)

LinkedTo(cert_id, field, other) ==
    /\ cert_id \in DOMAIN certificates
    /\ field \in DOMAIN certificates[cert_id]
    /\ certificates[cert_id][field] = other

\* C34: in every reachable registry state a record has status superseded only
\* if its superseded_by names an existing record whose renewed_from names it
\* back, and every record with a renewed_from names an existing record whose
\* superseded_by points to it.
SupersessionLinksConsistent ==
    \A cert_id \in DOMAIN certificates :
        /\ certificates[cert_id]["status"] = "superseded" =>
              /\ "superseded_by" \in DOMAIN certificates[cert_id]
              /\ LinkedTo(certificates[cert_id]["superseded_by"], "renewed_from", cert_id)
        /\ "renewed_from" \in DOMAIN certificates[cert_id] =>
              LinkedTo(certificates[cert_id]["renewed_from"], "superseded_by", cert_id)


----------------------------------------------------------------------------
(* the audit log of SimplePKIManager, checked under SpecMgr *)

\* the event types of the entries a step appended to the audit log
AppendedEventTypes ==
    [i \in 1..(Len(mgr_audit_log') - Len(mgr_audit_log)) |->
        mgr_audit_log'[Len(mgr_audit_log) + i].event_type]

MgrEventCount(event_type) ==
    Cardinality({i \in DOMAIN mgr_audit_log : mgr_audit_log[i].event_type = event_type})

\* C35: every issue_certificate call of SimplePKIManager appends one
\* POLICY_CHECK event first; an approved call then appends the certificate and
\* one CERTIFICATE_ISSUED event, a rejected call nothing else; between calls the
\* number of CERTIFICATE_ISSUED events equals the number of stored certificates
\* and every stored certificate is active.
MgrAuditStructure ==
    /\ [][MgrIssueStep =>
            /\ SubSeq(mgr_audit_log', 1, Len(mgr_audit_log)) = mgr_audit_log
            /\ IF result'.success
               THEN /\ AppendedEventTypes = <<"POLICY_CHECK", "CERTIFICATE_ISSUED">>
                    /\ Len(mgr_certificates') = Len(mgr_certificates) + 1
                    /\ SubSeq(mgr_certificates', 1, Len(mgr_certificates)) = mgr_certificates
               ELSE /\ AppendedEventTypes = <<"POLICY_CHECK">>
                    /\ mgr_certificates' = mgr_certificates]_vars
    /\ [](/\ MgrEventCount("CERTIFICATE_ISSUED") = Len(mgr_certificates)
          /\ \A i \in DOMAIN mgr_certificates : mgr_certificates[i].status = "active")

\* a rejected call came after an approved one
RejectedAfterIssuedReached ==
    /\ call.op = "SimplePKIManager.issue_certificate"
    /\ ~result.success
    /\ Len(mgr_certificates) = 1
    /\ Len(mgr_audit_log) = 3
    /\ mgr_audit_log[3].event_type = "POLICY_CHECK"


----------------------------------------------------------------------------
(* the identifiers SimplePKIManager hands out, checked under SpecMgrConc *)

\* C36: after any sequence of issue_certificate calls, concurrent ones
\* included, no two stored certificates share a cert_id or a serial_number,
\* and the k-th stored certificate has cert_id 'cert-k'.
MgrIdentifiersUnique ==
    /\ \A i, j \in DOMAIN mgr_certificates :
          i # j => /\ mgr_certificates[i].cert_id # mgr_certificates[j].cert_id
                   /\ mgr_certificates[i].serial_number # mgr_certificates[j].serial_number
    /\ \A k \in DOMAIN mgr_certificates :
          mgr_certificates[k].cert_id = "cert-" \o ToString(k)


----------------------------------------------------------------------------
(* closed dispatch, checked under SpecDispatch *)

Advertised(tool_name) == \E plugin \in DOMAIN AdvertisedTools : tool_name \in AdvertisedTools[plugin]

\* a rejection that says the tool was not found, raised or returned
NotFoundRejection(r) ==
    \/ /\ "raised" \in DOMAIN r
       /\ r.raised = "ValueError"
    \/ /\ "success" \in DOMAIN r
       /\ ~r.success

\* C37: execute_tool invokes only the operations some plugin's get_tools()
\* advertises and hands each advertised name to the plugin that advertised
\* it; any other name (a private helper, a data attribute) is rejected as not
\* found and no plugin state changes.
ClosedDispatch ==
    /\ \A plugin \in DOMAIN AdvertisedTools : \A tool_name \in AdvertisedTools[plugin] :
          Head(Resolved(tool_name)) = plugin
    /\ [][(call'.op = "execute_tool" /\ ~Advertised(call'.tool_name)) =>
            /\ NotFoundRejection(result')
            /\ UNCHANGED <<certificates, cert_keys, operation_log, violations, ca_key,
                           ca_cert, key_store, csr_store, crypto_log>>]_vars


----------------------------------------------------------------------------
(* the conversation history of BedrockCryptoAgent, checked under SpecChat *)

\* C38: after any sequence of chat calls, with or without tool use, the
\* conversation history alternates user and assistant roles starting with a
\* user message, and each user message precedes the tool_use turn and the
\* tool_result turn it triggered.
HistoryWellFormed ==
    chat.pc = "idle" =>
        /\ \A i \in DOMAIN conversation_history :
              conversation_history[i].role = IF i % 2 = 1 THEN "user" ELSE "assistant"
        /\ \A i \in DOMAIN conversation_history :
              conversation_history[i].kind = "tool_use" =>
                  /\ i > 1
                  /\ conversation_history[i - 1].role = "user"
                  /\ conversation_history[i - 1].kind = "text"


----------------------------------------------------------------------------
(* properties of CryptoMCPPlugin, checked under SpecCrypto *)

\* C39: in every reachable state each entry csr_<k> of the CSR store was
\* signed by the key pair now stored under k, and get_key_info(k) reports
\* has_csr only if such a CSR exists, also after a key is generated again
\* under an existing key_id.
StoredCsrsMatchKeys ==
    /\ \A csr_id \in DOMAIN csr_store :
          LET k == csr_store[csr_id].key_id
          IN  /\ csr_id = "csr_" \o k
              /\ k \in DOMAIN key_store
              /\ csr_store[csr_id].csr.signed_with = key_store[k].private_key
    /\ (call.op = "get_key_info" /\ result.success /\ result.has_csr) =>
          /\ "csr_" \o call.key_id \in DOMAIN csr_store
          /\ csr_store["csr_" \o call.key_id].csr.signed_with
                = key_store[call.key_id].private_key

\* C40: under the default policy generate_key_pair stores a key only for
\* arguments that validate_key_policy reports as compliant, and a
\* generate_key_pair that fails leaves the key store and the operation log
\* unchanged.
GenerationAgreesWithPolicy ==
    [][call'.op = "generate_key_pair" =>
          /\ result'.success =>
                KeyViolations(call'.algorithm, call'.key_size, call'.curve) = << >>
          /\ ~result'.success => UNCHANGED <<key_store, crypto_log>>]_vars

====
